---------------------------- MODULE Spec2Model ----------------------------
(***************************************************************************)
(* Model of the historical analysis and scoring engine of the IPO hype     *)
(* tracker: python-api/services/historical_analysis_service.py.            *)
(*                                                                         *)
(* Numbers are fixed point integers:                                       *)
(*   similarity scores             hundredths        (0.30 is 30)          *)
(*   revenue growth, gross margin  hundredths        (40.0 is 4000)        *)
(*   market cap                    tenths of 1e9 USD (2e9 is 20)           *)
(*   sub-scores, percentiles       thousandths of a point (50.0 is 50000)  *)
(*   confidences, multipliers      hundredths / thousandths as noted       *)
(*   trend scores                  half points       (50.0 is 100)         *)
(*   sentiment scores              units of 0.005    (0.05 is 10)          *)
(*   returns, volatility           units of 0.0005   (0.10 is 200)         *)
(* Stored trend, sentiment and return values are even, so the median of    *)
(* an even number of samples is exact.                                     *)
(* A nullable numeric column is <<>> for NULL/None and <<v>> for a value;  *)
(* a nullable text column is the string "NULL".                            *)
(***************************************************************************)
EXTENDS Integers, Sequences, FiniteSets

VARIABLES
    db_url,                    \* self.db_url is set (DATABASE_URL)
    db_up,                     \* the database accepts connections
    db_pool,                   \* self.db_pool: "None" or "pool"
    historical_ipos,           \* table historical_ipos
    historical_search_trends,  \* table historical_search_trends
    historical_news_sentiment, \* table historical_news_sentiment
    current_ipo,               \* the feature record handed to the core
    pc,                        \* position inside analyze_ipo_hype_score
    similar_ipos,              \* step 1 result
    benchmarks,                \* step 2 result
    search_analysis,           \* step 3 result
    sentiment_analysis,        \* step 4 result
    performance_predictions,   \* step 5 result
    result,                    \* what analyze_ipo_hype_score returned
    raised,                    \* the step whose exception reached the handler
    value,                     \* argument of _calculate_percentile_rank
    data,                      \* argument of _calculate_percentile_rank
    rank_out,                  \* result of _calculate_percentile_rank
    score_out,                 \* result of one _calculate_*_score call
    search_data,               \* raw trend input of the normalizer
    news_data,                 \* raw news input of the normalizer
    stock_data,                \* raw financial input of the normalizer
    tasks,                     \* the concurrent analyze_ipo_hype_score calls
    created_pools,             \* the asyncpg pools created so far
    stored,                    \* the last store_ipo_data call and its return
    api_key,                   \* OPENROUTER_API_KEY is set
    llm_result                 \* what generate_hype_score returned or raised

vars == << db_url, db_up, db_pool, historical_ipos, historical_search_trends,
           historical_news_sentiment, current_ipo, pc, similar_ipos,
           benchmarks, search_analysis, sentiment_analysis,
           performance_predictions, result, raised, value, data, rank_out,
           score_out, search_data, news_data, stock_data, tasks,
           created_pools, stored, api_key, llm_result >>

(***************************************************************************)
(* Bounds of the model.                                                    *)
(***************************************************************************)
MaxCopies == 3        \* copies of each common IPO row in the matcher corpus
MaxData == 3          \* length of the data set of a percentile computation
NumTasks == 2         \* analyses running concurrently on one service instance

None == << >>
Some(v) == << v >>
IsNone(x) == x = << >>
Val(x) == x[1]

(***************************************************************************)
(* Generic sequence helpers.                                               *)
(***************************************************************************)
RECURSIVE SumSeq(_)
SumSeq(s) == IF s = << >> THEN 0 ELSE Head(s) + SumSeq(Tail(s))

RECURSIVE SumSq(_)
SumSq(s) == IF s = << >> THEN 0 ELSE Head(s) * Head(s) + SumSq(Tail(s))

RECURSIVE Concat(_)
Concat(ss) == IF ss = << >> THEN << >> ELSE Head(ss) \o Concat(Tail(ss))

Take(s, n) == SubSeq(s, 1, IF Len(s) < n THEN Len(s) ELSE n)

Abs(x) == IF x < 0 THEN -x ELSE x
Max2(a, b) == IF a >= b THEN a ELSE b
Min2(a, b) == IF a <= b THEN a ELSE b

\* floor of the square root, by bisection: lo * lo <= n < hi * hi
RECURSIVE SqrtBetween(_, _, _)
SqrtBetween(n, lo, hi) ==
    IF hi - lo <= 1 THEN lo
    ELSE LET mid == (lo + hi) \div 2
         IN  IF mid <= n \div mid THEN SqrtBetween(n, mid, hi)
             ELSE SqrtBetween(n, lo, mid)

ISqrt(n) == SqrtBetween(n, 0, n + 1)

\* the values of a nullable column that are not None
RECURSIVE NotNone(_)
NotNone(s) ==
    IF s = << >> THEN << >>
    ELSE IF IsNone(Head(s)) THEN NotNone(Tail(s))
         ELSE << Val(Head(s)) >> \o NotNone(Tail(s))

RECURSIVE InsertAsc(_, _)
InsertAsc(x, s) ==
    IF s = << >> THEN << x >>
    ELSE IF x < Head(s) THEN << x >> \o s
         ELSE << Head(s) >> \o InsertAsc(x, Tail(s))

\* sorted(data)
RECURSIVE Sorted(_)
Sorted(s) == IF s = << >> THEN << >> ELSE InsertAsc(Head(s), Sorted(Tail(s)))


(***************************************************************************)
(* The statistics module, on non-empty data unless noted.                  *)
(***************************************************************************)
\* statistics.median: the middle value, or the mean of the two middle values
Median(s) ==
    LET t == Sorted(s)
        n == Len(t)
    IN  IF n % 2 = 1 THEN t[(n + 1) \div 2]
        ELSE (t[n \div 2] + t[n \div 2 + 1]) \div 2

\* statistics.mean
Mean(s) == SumSeq(s) \div Len(s)

\* statistics.stdev (sample standard deviation), Len(s) > 1
Stdev(s) ==
    LET n == Len(s)
    IN  ISqrt((n * SumSq(s) - SumSeq(s) * SumSeq(s)) \div (n * (n - 1)))

\* a median that returns the first value of the list
safe_median_first(values, default) ==
    IF values = << >> THEN default ELSE values[1]

\* _safe_median(values, default)
safe_median(values, default) ==
    IF values = << >> THEN default
    ELSE IF Len(values) = 1 THEN values[1]
         ELSE Median(values)

RECURSIVE CountBelow(_, _)
CountBelow(v, s) ==
    IF s = << >> THEN 0
    ELSE (IF Head(s) < v THEN 1 ELSE 0) + CountBelow(v, Tail(s))

RECURSIVE CountNotAbove(_, _)
CountNotAbove(v, s) ==
    IF s = << >> THEN 0
    ELSE (IF Head(s) <= v THEN 1 ELSE 0) + CountNotAbove(v, Tail(s))

NeutralPercentile == 50000

\* a ranking that counts ties: x <= value instead of x < value
calculate_percentile_rank_ties(v, d) ==
    IF d = << >> THEN NeutralPercentile
    ELSE (CountNotAbove(v, Sorted(d)) * 100000) \div Len(d)

\* _calculate_percentile_rank(value, data), in thousandths of a point
calculate_percentile_rank(v, d) ==
    IF d = << >> THEN NeutralPercentile
    ELSE (CountBelow(v, Sorted(d)) * 100000) \div Len(d)

(***************************************************************************)
(* _get_db_pool: the pool is created on first use and kept in self.db_pool *)
(* a failed creation leaves self.db_pool None and returns None.            *)
(***************************************************************************)
\* self.db_pool after the call
PoolAfter ==
    IF db_url /\ db_pool = "None" /\ db_up THEN "pool" ELSE db_pool

\* the value the call returns
get_db_pool == IF ~db_url THEN "None" ELSE PoolAfter

(***************************************************************************)
(* The corpus.  A historical_ipos row is a copy j of one of the row kinds  *)
(* below; copies of a kind differ in ticker and ipo date.  ipo_age is the  *)
(* number of days between ipo_date and NOW() (negative: a future date).    *)
(***************************************************************************)
FiveYears == 1826

IpoKinds == <<
    [sector |-> "Tech", industry |-> "Software", market_cap_category |-> "small",
     revenue_growth_yoy |-> Some(4200), gross_margin |-> Some(6000),
     market_cap_at_ipo |-> Some(10), first_day_return |-> Some(200),
     first_week_return |-> Some(100), first_month_return |-> Some(60), base_age |-> 0],
    [sector |-> "Tech", industry |-> "Software", market_cap_category |-> "small",
     revenue_growth_yoy |-> Some(0), gross_margin |-> Some(3000),
     market_cap_at_ipo |-> Some(16), first_day_return |-> Some(-100),
     first_week_return |-> None, first_month_return |-> None, base_age |-> 0],
    [sector |-> "Tech", industry |-> "Software", market_cap_category |-> "NULL",
     revenue_growth_yoy |-> None, gross_margin |-> None,
     market_cap_at_ipo |-> None, first_day_return |-> None,
     first_week_return |-> None, first_month_return |-> None, base_age |-> 0],
    [sector |-> "NULL", industry |-> "Hardware", market_cap_category |-> "small",
     revenue_growth_yoy |-> Some(9000), gross_margin |-> Some(8000),
     market_cap_at_ipo |-> Some(4), first_day_return |-> Some(600),
     first_week_return |-> Some(400), first_month_return |-> None, base_age |-> 0],
    [sector |-> "Tech", industry |-> "Hardware", market_cap_category |-> "NULL",
     revenue_growth_yoy |-> Some(64), gross_margin |-> Some(2000),
     market_cap_at_ipo |-> None, first_day_return |-> Some(0),
     first_week_return |-> Some(0), first_month_return |-> Some(-200), base_age |-> 0],
    [sector |-> "Health", industry |-> "Biotech", market_cap_category |-> "mid",
     revenue_growth_yoy |-> Some(4000), gross_margin |-> Some(9000),
     market_cap_at_ipo |-> Some(50), first_day_return |-> Some(1200),
     first_week_return |-> Some(800), first_month_return |-> Some(1000), base_age |-> 0],
    [sector |-> "Tech", industry |-> "Software", market_cap_category |-> "small",
     revenue_growth_yoy |-> Some(4000), gross_margin |-> Some(5000),
     market_cap_at_ipo |-> Some(12), first_day_return |-> Some(400),
     first_week_return |-> Some(200), first_month_return |-> Some(200), base_age |-> 2000],
    [sector |-> "Tech", industry |-> "Software", market_cap_category |-> "small",
     revenue_growth_yoy |-> Some(4000), gross_margin |-> Some(5000),
     market_cap_at_ipo |-> Some(12), first_day_return |-> None,
     first_week_return |-> None, first_month_return |-> None, base_age |-> -400]
>>

NumKinds == Len(IpoKinds)

\* copy j of row kind k
IpoRow(k, j) ==
    LET t == IpoKinds[k]
    IN  [ticker |-> << k, j >>, sector |-> t.sector, industry |-> t.industry,
         market_cap_category |-> t.market_cap_category,
         revenue_growth_yoy |-> t.revenue_growth_yoy,
         gross_margin |-> t.gross_margin,
         market_cap_at_ipo |-> t.market_cap_at_ipo,
         first_day_return |-> t.first_day_return,
         first_week_return |-> t.first_week_return,
         first_month_return |-> t.first_month_return,
         ipo_age |-> t.base_age + 10 * j + k]

\* the table holding cnt[k] copies of each kind k
RECURSIVE IpoTable(_, _)
IpoTable(cnt, k) ==
    IF k > NumKinds THEN << >>
    ELSE [j \in 1..cnt[k] |-> IpoRow(k, j)] \o IpoTable(cnt, k + 1)

(***************************************************************************)
(* Step 1: _find_similar_historical_ipos.                                  *)
(***************************************************************************)
SqlLimit == 50            \* LIMIT 50
TopMatches == 10          \* similar_matches[:10]
MinSimilarity == 30       \* similarity_score >= 0.3
WeightMarketCap == 30
WeightSector == 20
WeightIndustry == 20
WeightRevenueGrowth == 30

\* the market cap category of the current company; "NULL" is None
MarketCapCategory(market_cap) ==
    IF market_cap = 0 THEN "NULL"
    ELSE IF market_cap < 3 THEN "micro"
    ELSE IF market_cap < 20 THEN "small"
    ELSE IF market_cap < 100 THEN "mid"
    ELSE IF market_cap < 2000 THEN "large"
    ELSE "mega"

RECURSIVE InsertByDate(_, _)
InsertByDate(row, s) ==
    IF s = << >> THEN << row >>
    ELSE IF row.ipo_age < Head(s).ipo_age THEN << row >> \o s
         ELSE << Head(s) >> \o InsertByDate(row, Tail(s))

\* ORDER BY ipo_date DESC
RECURSIVE OrderByDateDesc(_)
OrderByDateDesc(s) ==
    IF s = << >> THEN << >> ELSE InsertByDate(Head(s), OrderByDateDesc(Tail(s)))

\* the rows conn.fetch(query, *params) returns
CandidateRows(market_cap_category, sector) ==
    LET Where(row) ==
            /\ row.ipo_age > 0
            /\ market_cap_category # "NULL" =>
                   row.market_cap_category \in {market_cap_category, "NULL"}
            /\ sector # "" => row.sector \in {sector, "NULL"}
            /\ row.ipo_age <= FiveYears
    IN  Take(OrderByDateDesc(SelectSeq(historical_ipos, Where)), SqlLimit)

\* a growth comparison that divides by abs(revenue_growth) alone
GrowthDiffSmall_rel(row_growth, revenue_growth) ==
    5 * Abs(row_growth - revenue_growth) < Abs(revenue_growth)

\* abs(row - revenue_growth) / max(abs(revenue_growth), 1) < 0.2
GrowthDiffSmall(row_growth, revenue_growth) ==
    5 * Abs(row_growth - revenue_growth) < Max2(Abs(revenue_growth), 100)

\* the factors of one row, in the order the code appends them
MatchingFactors(row, cur) ==
    LET market_cap_category == MarketCapCategory(cur.implied_market_cap)
    IN  (IF row.market_cap_category = market_cap_category
            THEN << "market_cap" >> ELSE << >>)
        \o (IF row.sector = cur.sector THEN << "sector" >> ELSE << >>)
        \o (IF row.industry = cur.industry THEN << "industry" >> ELSE << >>)
        \o (IF /\ ~IsNone(row.revenue_growth_yoy)
               /\ Val(row.revenue_growth_yoy) # 0
               /\ cur.revenue_growth_yoy # 0
               /\ GrowthDiffSmall(Val(row.revenue_growth_yoy), cur.revenue_growth_yoy)
            THEN << "revenue_growth" >> ELSE << >>)

FactorWeight(f) ==
    CASE f = "market_cap" -> WeightMarketCap
      [] f = "sector" -> WeightSector
      [] f = "industry" -> WeightIndustry
      [] f = "revenue_growth" -> WeightRevenueGrowth

RECURSIVE SumWeights(_)
SumWeights(fs) ==
    IF fs = << >> THEN 0 ELSE FactorWeight(Head(fs)) + SumWeights(Tail(fs))

\* SimilarityMatch(...) of one row; market_cap keeps its default None
MakeMatch(row, cur) ==
    LET factors == MatchingFactors(row, cur)
    IN  [ticker |-> row.ticker,
         similarity_score |-> SumWeights(factors),
         matching_factors |-> factors,
         revenue_growth |-> row.revenue_growth_yoy,
         gross_margin |-> row.gross_margin,
         market_cap |-> None,
         first_day_return |-> row.first_day_return,
         first_week_return |-> row.first_week_return,
         first_month_return |-> row.first_month_return]

\* a threshold test that keeps every candidate
Retained_all(m) == m.similarity_score >= 0

\* if similarity_score >= 0.3
Retained(m) == m.similarity_score >= MinSimilarity

RECURSIVE InsertDesc(_, _)
InsertDesc(m, s) ==
    IF s = << >> THEN << m >>
    ELSE IF Head(s).similarity_score >= m.similarity_score
         THEN << Head(s) >> \o InsertDesc(m, Tail(s))
         ELSE << m >> \o s

RECURSIVE SortFrom(_, _)
SortFrom(s, acc) ==
    IF s = << >> THEN acc ELSE SortFrom(Tail(s), InsertDesc(Head(s), acc))

\* a sort that forgets reverse=True
SortBySimilarity_asc(s) ==
    LET RECURSIVE Rev(_)
        Rev(t) == IF t = << >> THEN << >> ELSE Rev(Tail(t)) \o << Head(t) >>
    IN  Rev(SortFrom(s, << >>))

\* similar_matches.sort(key=similarity_score, reverse=True): stable, descending
SortBySimilarity(s) == SortFrom(s, << >>)

\* a slice that returns every match
TopSlice_all(s) == s

\* similar_matches[:10]
TopSlice(s) == Take(s, TopMatches)

\* the matches appended by the loop over rows, before sorting
RetainedMatches(cur) ==
    LET rows == CandidateRows(MarketCapCategory(cur.implied_market_cap), cur.sector)
        all == [i \in 1..Len(rows) |-> MakeMatch(rows[i], cur)]
    IN  SelectSeq(all, Retained)

\* the value _find_similar_historical_ipos returns; fail: the query raised
find_similar_historical_ipos(cur, fail) ==
    IF get_db_pool = "None" \/ fail THEN << >>
    ELSE TopSlice(SortBySimilarity(RetainedMatches(cur)))

(***************************************************************************)
(* Step 2: _calculate_historical_benchmarks.                               *)
(***************************************************************************)
\* the rows of the last five years (ipo_date >= NOW() - INTERVAL '5 years')
RecentIpos == LET Recent(row) == row.ipo_age <= FiveYears
              IN  SelectSeq(historical_ipos, Recent)

\* the non-null values of one column of the recent rows
HistoricalGrowthRates ==
    NotNone([i \in 1..Len(RecentIpos) |-> RecentIpos[i].revenue_growth_yoy])
HistoricalMargins ==
    NotNone([i \in 1..Len(RecentIpos) |-> RecentIpos[i].gross_margin])
HistoricalMarketCaps ==
    NotNone([i \in 1..Len(RecentIpos) |-> RecentIpos[i].market_cap_at_ipo])

\* HistoricalBenchmark(...) of one metric
MakeBenchmark(metric_name, current_value, historical, similar) ==
    [metric_name |-> metric_name,
     current_value |-> current_value,
     historical_median |-> IF historical # << >> THEN Median(historical) ELSE 0,
     historical_mean |-> IF historical # << >> THEN Mean(historical) ELSE 0,
     historical_std |-> IF Len(historical) > 1 THEN Stdev(historical) ELSE 0,
     percentile_rank |-> calculate_percentile_rank(current_value, historical),
     similar_ipos_median |-> IF similar # << >> THEN Median(similar) ELSE 0,
     similar_ipos_mean |-> IF similar # << >> THEN Mean(similar) ELSE 0,
     similar_ipos_std |-> IF Len(similar) > 1 THEN Stdev(similar) ELSE 0,
     similar_ipos_percentile |-> calculate_percentile_rank(current_value, similar)]

\* the three benchmarks in the order the code appends them
AllBenchmarks(cur, similar) ==
    << MakeBenchmark("Revenue Growth YoY", cur.revenue_growth_yoy,
           HistoricalGrowthRates,
           NotNone([i \in 1..Len(similar) |-> similar[i].revenue_growth])),
       MakeBenchmark("Gross Margin", cur.gross_margin,
           HistoricalMargins,
           NotNone([i \in 1..Len(similar) |-> similar[i].gross_margin])),
       MakeBenchmark("Market Cap", cur.implied_market_cap,
           HistoricalMarketCaps,
           NotNone([i \in 1..Len(similar) |-> similar[i].market_cap])) >>

\* a variant that gives each benchmark its own try: the benchmark whose
\* query raised is left out and the later ones are still built
calculate_historical_benchmarks_skip_failed(cur, similar, fail) ==
    IF get_db_pool = "None" THEN << >>
    ELSE IF fail = 0 THEN AllBenchmarks(cur, similar)
    ELSE LET all == AllBenchmarks(cur, similar)
             Kept(b) == b.metric_name # all[fail].metric_name
         IN  SelectSeq(all, Kept)

\* the value _calculate_historical_benchmarks returns; fail = k in 1..3: the
\* k-th query raised (the benchmarks appended before it are kept), 0: none did
calculate_historical_benchmarks(cur, similar, fail) ==
    IF get_db_pool = "None" THEN << >>
    ELSE IF fail = 0 THEN AllBenchmarks(cur, similar)
    ELSE Take(AllBenchmarks(cur, similar), fail - 1)

(***************************************************************************)
(* Steps 3 and 4: the trend and sentiment analyses.  A sample row is       *)
(* [ticker, score (nullable), age in days].                                *)
(***************************************************************************)
EighteenMonths == 548
SampleLimit == 5000

RECURSIVE Tickers(_)
Tickers(similar) ==
    IF similar = << >> THEN {}
    ELSE {Head(similar).ticker} \cup Tickers(Tail(similar))

\* SELECT score FROM table WHERE date >= NOW() - INTERVAL '18 months' LIMIT 5000
PoolScores(table) ==
    LET InWindow(r) == r.age <= EighteenMonths
        rows == Take(SelectSeq(table, InWindow), SampleLimit)
    IN  NotNone([i \in 1..Len(rows) |-> rows[i].score])

\* SELECT score FROM table WHERE ticker = ANY($1) AND date >= NOW() - 18 months
PeerScores(table, similar_tickers) ==
    LET Mine(r) == r.age <= EighteenMonths /\ r.ticker \in similar_tickers
        rows == SelectSeq(table, Mine)
    IN  NotNone([i \in 1..Len(rows) |-> rows[i].score])

\* the two lists after the read block; fail = 1: the first query raised,
\* 2: the second one did, 0: none
ReadPools(table, similar, fail) ==
    LET similar_tickers == Tickers(similar)
    IN  IF get_db_pool = "None" \/ fail = 1
            THEN [historical |-> << >>, similar |-> << >>]
        ELSE IF similar_tickers = {} \/ fail = 2
            THEN [historical |-> PoolScores(table), similar |-> << >>]
        ELSE [historical |-> PoolScores(table),
              similar |-> PeerScores(table, similar_tickers)]

\* the strength label chosen from the percentile in the peer pool
TrendStrength_peer(trend_percentile, similar_trend_percentile) ==
    IF similar_trend_percentile >= 90000 THEN "Exceptional"
    ELSE IF similar_trend_percentile >= 75000 THEN "Strong"
    ELSE IF similar_trend_percentile >= 50000 THEN "Moderate"
    ELSE "Weak"

\* lines 387-398: the strength label is chosen from trend_percentile
TrendStrength(trend_percentile, similar_trend_percentile) ==
    IF trend_percentile >= 90000 THEN "Exceptional"
    ELSE IF trend_percentile >= 75000 THEN "Strong"
    ELSE IF trend_percentile >= 50000 THEN "Moderate"
    ELSE "Weak"

\* a default that leaves the peer list empty when no peer sample exists
DefaultSimilar_keep(similar_scores, historical_scores) == similar_scores

\* if not similar_scores: similar_scores = historical_scores
DefaultSimilar(similar_scores, historical_scores) ==
    IF similar_scores = << >> THEN historical_scores ELSE similar_scores

\* a live test that trusts the trend values alone
TrendLive_ignore_flag(cur) ==
    (cur.trend_average_interest + cur.trend_recent_interest) > 0
        \/ cur.trend_score > 0

\* live_data_available (line 325)
TrendLive(cur) ==
    /\ cur.trend_data_available
    /\ \/ (cur.trend_average_interest + cur.trend_recent_interest) > 0
       \/ cur.trend_score > 0

\* a confidence rule with the two fallback branches exchanged
TrendConfidence_swapped(fallback_used, fallback_source) ==
    IF ~fallback_used THEN 100
    ELSE IF fallback_source = "similar" THEN 60 ELSE 75

\* data_confidence of the trend analysis (lines 400-405), in hundredths
TrendConfidence(fallback_used, fallback_source) ==
    IF ~fallback_used THEN 100
    ELSE IF fallback_source = "similar" THEN 75 ELSE 60

\* the value _analyze_search_trends_historically returns
analyze_search_trends_historically(cur, similar, fail) ==
    LET pools == ReadPools(historical_search_trends, similar, fail)
        historical_trend_scores ==
            IF pools.historical = << >> THEN << 100 >> ELSE pools.historical
        similar_trend_scores ==
            DefaultSimilar(pools.similar, historical_trend_scores)
        live_data_available == TrendLive(cur)
        first == ~live_data_available \/ cur.trend_error # "None"
        flat == /\ ~first
                /\ cur.trend_score <= 0
                /\ cur.trend_recent_interest <= 0
                /\ cur.trend_average_interest <= 0
        fallback_used == first \/ flat
        fallback_source ==
            IF first THEN (IF similar_trend_scores # << >> THEN "similar"
                           ELSE "historical")
            ELSE IF flat THEN "similar" ELSE "live"
        effective_trend_score ==
            IF first THEN (IF similar_trend_scores # << >>
                           THEN safe_median(similar_trend_scores, 110)
                           ELSE safe_median(historical_trend_scores, 110))
            ELSE IF flat THEN safe_median(similar_trend_scores, 110)
            ELSE cur.trend_score
        trend_percentile ==
            calculate_percentile_rank(effective_trend_score, historical_trend_scores)
        similar_trend_percentile ==
            calculate_percentile_rank(effective_trend_score, similar_trend_scores)
    IN  [current_trend_score |-> cur.trend_score,
         effective_trend_score |-> effective_trend_score,
         historical_percentile |-> trend_percentile,
         similar_ipos_percentile |-> similar_trend_percentile,
         effective_percentile |-> similar_trend_percentile,
         trend_strength |-> TrendStrength(trend_percentile, similar_trend_percentile),
         historical_median |-> safe_median(historical_trend_scores, 100),
         similar_ipos_median |-> safe_median(similar_trend_scores, 100),
         trend_volatility |-> IF Len(historical_trend_scores) > 1
                              THEN Stdev(historical_trend_scores) ELSE 0,
         data_available |-> live_data_available /\ ~fallback_used,
         used_historical_fallback |-> fallback_used,
         fallback_source |-> fallback_source,
         data_confidence |-> TrendConfidence(fallback_used, fallback_source),
         historical_sample_size |-> Len(historical_trend_scores),
         similar_sample_size |-> Len(similar_trend_scores)]

\* sentiment_strength (lines 491-500)
SentimentStrength(effective_sentiment) ==
    IF effective_sentiment > 40 THEN "Extremely Positive"
    ELSE IF effective_sentiment > 20 THEN "Very Positive"
    ELSE IF effective_sentiment > 4 THEN "Moderately Positive"
    ELSE IF effective_sentiment < -10 THEN "Negative"
    ELSE "Neutral/Negative"

\* data_confidence of the sentiment analysis (lines 502-507), in hundredths
SentimentConfidence(fallback_used, fallback_source) ==
    IF ~fallback_used THEN 100
    ELSE IF fallback_source = "similar" THEN 70 ELSE 55

\* the value _analyze_sentiment_historically returns
analyze_sentiment_historically(cur, similar, fail) ==
    LET pools == ReadPools(historical_news_sentiment, similar, fail)
        historical_sentiment_scores ==
            IF pools.historical = << >> THEN << 0 >> ELSE pools.historical
        similar_sentiment_scores ==
            DefaultSimilar(pools.similar, historical_sentiment_scores)
        live_data_available ==
            cur.news_data_available /\ cur.news_total_articles > 0
        first == ~live_data_available \/ cur.news_error # "None"
        noarticles == ~first /\ cur.news_total_articles = 0
        fallback_used == first \/ noarticles
        fallback_source ==
            IF first THEN (IF similar_sentiment_scores # << >> THEN "similar"
                           ELSE "historical")
            ELSE IF noarticles THEN "similar" ELSE "live"
        effective_sentiment ==
            IF first THEN (IF similar_sentiment_scores # << >>
                           THEN safe_median(similar_sentiment_scores, 10)
                           ELSE safe_median(historical_sentiment_scores, 10))
            ELSE IF noarticles THEN safe_median(similar_sentiment_scores, 10)
            ELSE cur.sentiment_score
        sentiment_percentile ==
            calculate_percentile_rank(effective_sentiment, historical_sentiment_scores)
        similar_sentiment_percentile ==
            calculate_percentile_rank(effective_sentiment, similar_sentiment_scores)
    IN  [current_sentiment |-> cur.sentiment_score,
         effective_sentiment |-> effective_sentiment,
         total_articles |-> cur.news_total_articles,
         historical_percentile |-> sentiment_percentile,
         similar_ipos_percentile |-> similar_sentiment_percentile,
         effective_percentile |-> similar_sentiment_percentile,
         sentiment_strength |-> SentimentStrength(effective_sentiment),
         historical_median |-> safe_median(historical_sentiment_scores, 0),
         similar_ipos_median |-> safe_median(similar_sentiment_scores, 0),
         data_available |-> live_data_available /\ ~fallback_used,
         used_historical_fallback |-> fallback_used,
         fallback_source |-> fallback_source,
         data_confidence |-> SentimentConfidence(fallback_used, fallback_source),
         historical_sample_size |-> Len(historical_sentiment_scores),
         similar_sample_size |-> Len(similar_sentiment_scores)]

(***************************************************************************)
(* Step 5: _predict_performance_from_history.                              *)
(***************************************************************************)
\* the three return lists after the read block; fail: the query raised
\* lists in which a missing later return is replaced by the first-day list
ReturnLists_day_fill(similar, fail) ==
    IF get_db_pool = "None" \/ fail
    THEN [day |-> << >>, week |-> << >>, month |-> << >>]
    ELSE LET HasDay(row) == row.ipo_age <= FiveYears /\ ~IsNone(row.first_day_return)
             rows == SelectSeq(historical_ipos, HasDay)
             day == NotNone([i \in 1..Len(rows) |-> rows[i].first_day_return])
                    \o NotNone([i \in 1..Len(similar) |-> similar[i].first_day_return])
             week == NotNone([i \in 1..Len(rows) |-> rows[i].first_week_return])
                     \o NotNone([i \in 1..Len(similar) |-> similar[i].first_week_return])
             month == NotNone([i \in 1..Len(rows) |-> rows[i].first_month_return])
                      \o NotNone([i \in 1..Len(similar) |-> similar[i].first_month_return])
         IN  [day |-> day,
              week |-> IF week = << >> THEN day ELSE week,
              month |-> IF month = << >> THEN day ELSE month]

\* the three return lists of step 5 (lines 531-562)
ReturnLists(similar, fail) ==
    IF get_db_pool = "None" \/ fail
    THEN [day |-> << >>, week |-> << >>, month |-> << >>]
    ELSE LET HasDay(row) == row.ipo_age <= FiveYears /\ ~IsNone(row.first_day_return)
             rows == SelectSeq(historical_ipos, HasDay)
         IN  [day |-> NotNone([i \in 1..Len(rows) |-> rows[i].first_day_return])
                      \o NotNone([i \in 1..Len(similar) |-> similar[i].first_day_return]),
              week |-> NotNone([i \in 1..Len(rows) |-> rows[i].first_week_return])
                       \o NotNone([i \in 1..Len(similar) |-> similar[i].first_week_return]),
              month |-> NotNone([i \in 1..Len(rows) |-> rows[i].first_month_return])
                        \o NotNone([i \in 1..Len(similar) |-> similar[i].first_month_return])]

\* statistics.median raises StatisticsError on an empty list (lines 565-567)
predict_performance_raises(similar, fail) ==
    LET r == ReturnLists(similar, fail)
    IN  r.day = << >> \/ r.week = << >> \/ r.month = << >>

\* the value _predict_performance_from_history returns when it does not raise
predict_performance_from_history(similar, fail) ==
    LET r == ReturnLists(similar, fail)
        performance_volatility == IF Len(r.day) > 1 THEN Stdev(r.day) ELSE 0
    IN  [predicted_first_day_return |-> Median(r.day),
         predicted_first_week_return |-> Median(r.week),
         predicted_first_month_return |-> Median(r.month),
         performance_volatility |-> performance_volatility,
         historical_sample_size |-> Len(r.day),
         risk_level |-> IF performance_volatility > 600 THEN "High"
                        ELSE IF performance_volatility > 300 THEN "Medium"
                        ELSE "Low"]

(***************************************************************************)
(* Step 6: the component scorers and _generate_data_backed_hype_score.     *)
(***************************************************************************)
Clamp(lo, x, hi) == Max2(lo, Min2(hi, x))

\* a financial score with the two percentile weights exchanged
calculate_financial_score_swapped(bms) ==
    IF bms = << >> THEN 50000
    ELSE Mean([i \in 1..Len(bms) |->
                  (3 * bms[i].similar_ipos_percentile + 7 * bms[i].percentile_rank)
                      \div 10])

\* _calculate_financial_score
calculate_financial_score(bms) ==
    IF bms = << >> THEN 50000
    ELSE Mean([i \in 1..Len(bms) |->
                  (7 * bms[i].similar_ipos_percentile + 3 * bms[i].percentile_rank)
                      \div 10])

\* a multiplier table that rates "Weak" like "Moderate"
TrendMultiplier_weak(strength) ==
    CASE strength = "Exceptional" -> 1200
      [] strength = "Strong" -> 1100
      [] OTHER -> 1000

\* strength_multiplier of the trend score, in thousandths
TrendMultiplier(strength) ==
    CASE strength = "Exceptional" -> 1200
      [] strength = "Strong" -> 1100
      [] strength = "Moderate" -> 1000
      [] strength = "Weak" -> 800
      [] OTHER -> 1000

\* _calculate_trend_score
calculate_trend_score(sa) ==
    LET base_score == Min2(100000,
                           (sa.effective_percentile * TrendMultiplier(sa.trend_strength))
                               \div 1000)
        confidence_multiplier == 600 + 4 * Clamp(0, sa.data_confidence, 100)
        score == (base_score * confidence_multiplier) \div 1000
    IN  Max2(35000, Min2(100000, score))

\* a multiplier table with the two lowest entries exchanged
SentimentMultiplier_swapped(strength) ==
    CASE strength = "Extremely Positive" -> 1200
      [] strength = "Very Positive" -> 1100
      [] strength = "Moderately Positive" -> 1000
      [] strength = "Neutral/Negative" -> 600
      [] strength = "Negative" -> 700
      [] OTHER -> 1000

\* strength_multiplier of the sentiment score, in thousandths
SentimentMultiplier(strength) ==
    CASE strength = "Extremely Positive" -> 1200
      [] strength = "Very Positive" -> 1100
      [] strength = "Moderately Positive" -> 1000
      [] strength = "Neutral/Negative" -> 700
      [] strength = "Negative" -> 600
      [] OTHER -> 1000

\* _calculate_sentiment_score
calculate_sentiment_score(sa) ==
    LET base_score == Min2(100000,
                           (sa.effective_percentile
                                * SentimentMultiplier(sa.sentiment_strength)) \div 1000)
        confidence_multiplier == 600 + 4 * Clamp(0, sa.data_confidence, 100)
        score == (base_score * confidence_multiplier) \div 1000
    IN  Max2(30000, Min2(100000, score))

\* _calculate_performance_score
calculate_performance_score(pp) ==
    LET return_score == Clamp(0, 50000 + pp.predicted_first_day_return * 50, 100000)
        volatility == Clamp(0, pp.performance_volatility, 1000)
        multiplier == 1100 - (volatility * 4) \div 5
    IN  Min2(100000, (return_score * multiplier) \div 1000)

\* _calculate_similarity_score
calculate_similarity_score(similar) ==
    IF similar = << >> THEN 30000
    ELSE LET total == SumSeq([i \in 1..Len(similar) |-> similar[i].similarity_score])
             quality_bonus == Min2(20, Len(similar) * 5)
         IN  Min2(100000, (total * 1000) \div Len(similar) + quality_bonus * 1000)

Components == << "financial", "trend", "sentiment", "performance", "similarity" >>

\* base_weights, in hundredths
base_weights ==
    [financial |-> 28, trend |-> 18, sentiment |-> 18,
     performance |-> 20, similarity |-> 16]

\* component_confidences, in hundredths
component_confidences(similar, bms, sa, na, pp) ==
    [financial |-> IF bms # << >> THEN 100 ELSE 70,
     trend |-> Max2(35, sa.data_confidence),
     sentiment |-> Max2(35, na.data_confidence),
     performance |-> Min2(100, 60 + 8 * pp.historical_sample_size),
     similarity |-> Min2(100, 55 + 5 * Len(similar))]

\* weighted_weights: base weight times max(confidence, 0.25)
weighted_weights(conf) ==
    [k \in DOMAIN base_weights |-> base_weights[k] * Max2(conf[k], 25)]

SumWeighted(w) ==
    w.financial + w.trend + w.sentiment + w.performance + w.similarity

\* a total that leaves out the renormalisation: the sum of the base weights
total_weight_base(w) == 100 * SumWeighted(base_weights)

\* total_weight = sum(weighted_weights.values())
total_weight(w) == SumWeighted(w)

\* weights: each is num[k] / den
Weights(conf) ==
    LET w == weighted_weights(conf)
    IN  IF total_weight(w) = 0 THEN [num |-> base_weights, den |-> 100]
        ELSE [num |-> w, den |-> total_weight(w)]

\* the five sub-scores
SubScores(similar, bms, sa, na, pp) ==
    [financial |-> calculate_financial_score(bms),
     trend |-> calculate_trend_score(sa),
     sentiment |-> calculate_sentiment_score(na),
     performance |-> calculate_performance_score(pp),
     similarity |-> calculate_similarity_score(similar)]

\* base_hype_score: the weighted sum
base_hype_score(scores, weights) ==
    (scores.financial * weights.num.financial
     + scores.trend * weights.num.trend
     + scores.sentiment * weights.num.sentiment
     + scores.performance * weights.num.performance
     + scores.similarity * weights.num.similarity) \div weights.den

\* a calibration without the floor and the cap
final_hype_score_unclamped(base) == (base * 11) \div 10 + 12500

\* final_hype_score = max(35.0, min(100.0, base * 1.1 + 12.5))
final_hype_score(base) == Max2(35000, Min2(100000, (base * 11) \div 10 + 12500))

\* round(x, 1), the result still in thousandths
Round1(x) == ((x + 50) \div 100) * 100

\* round(v, 3) of the weight num / den, in thousandths
Round3(num, den) == (2 * num * 1000 + den) \div (2 * den)

\* _generate_recommendation
generate_recommendation(hype_score) ==
    IF hype_score >= 85000 THEN "Strong Buy"
    ELSE IF hype_score >= 70000 THEN "Buy"
    ELSE IF hype_score >= 50000 THEN "Hold"
    ELSE "Sell"

\* _assess_risk_level
assess_risk_level(pp) ==
    IF pp.performance_volatility > 800 THEN "High"
    ELSE IF pp.performance_volatility > 400 THEN "Medium"
    ELSE "Low"

\* _extract_key_factors
RECURSIVE BenchmarkFactors(_)
BenchmarkFactors(bms) ==
    IF bms = << >> THEN << >>
    ELSE (IF Head(bms).similar_ipos_percentile > 80000
              THEN << << "Strong", Head(bms).metric_name >> >>
          ELSE IF Head(bms).similar_ipos_percentile < 30000
              THEN << << "Weak", Head(bms).metric_name >> >>
          ELSE << >>)
         \o BenchmarkFactors(Tail(bms))

extract_key_factors(bms, sa, na) ==
    Take(BenchmarkFactors(bms)
         \o (IF sa.trend_strength \in {"Exceptional", "Strong"}
             THEN << << sa.trend_strength, "search interest" >> >> ELSE << >>)
         \o (IF na.sentiment_strength \in
                   {"Extremely Positive", "Very Positive", "Moderately Positive"}
             THEN << << na.sentiment_strength, "media sentiment" >> >> ELSE << >>),
         5)

\* _generate_detailed_analysis: the parts of the text, by their headings
generate_detailed_analysis(similar, bms, sa, na) ==
    (IF bms # << >> THEN << "Financial Analysis" >> ELSE << >>)
    \o << "Search Interest" >>
    \o (IF sa.used_historical_fallback THEN << "Live search activity was sparse" >>
        ELSE << >>)
    \o << "News Sentiment" >>
    \o (IF na.used_historical_fallback THEN << "Current media coverage is thin" >>
        ELSE << >>)
    \o << "Performance Prediction" >>
    \o (IF similar # << >> THEN << "Historical Context" >> ELSE << >>)

\* the dict _generate_data_backed_hype_score returns
generate_data_backed_hype_score(similar, bms, sa, na, pp) ==
    LET scores == SubScores(similar, bms, sa, na, pp)
        weights == Weights(component_confidences(similar, bms, sa, na, pp))
        final == final_hype_score(base_hype_score(scores, weights))
    IN  [hype_score |-> Round1(final),
         component_scores |->
             [financial_score |-> Round1(scores.financial),
              trend_score |-> Round1(scores.trend),
              sentiment_score |-> Round1(scores.sentiment),
              performance_score |-> Round1(scores.performance),
              similarity_score |-> Round1(scores.similarity)],
         weight_allocation |->
             [k \in DOMAIN base_weights |-> Round3(weights.num[k], weights.den)],
         analysis |-> generate_detailed_analysis(similar, bms, sa, na),
         key_factors |-> extract_key_factors(bms, sa, na),
         recommendation |-> generate_recommendation(final),
         risk_level |-> assess_risk_level(pp),
         historical_context |->
             [similar_ipos_count |-> Len(similar),
              benchmarks_analyzed |-> Len(bms)],
         last_updated |-> "now"]

\* a handler that lets the exception through
ExceptResult_reraise == [raised |-> "Exception"]

\* a fallback that rates the risk "Medium" and counts one benchmark
get_fallback_hype_score_medium ==
    [hype_score |-> 50000,
     component_scores |->
         [financial_score |-> 50000, trend_score |-> 50000,
          sentiment_score |-> 50000, performance_score |-> 50000,
          similarity_score |-> 30000],
     analysis |-> << "Historical analysis unavailable" >>,
     key_factors |-> << << "Limited historical data available" >> >>,
     recommendation |-> "Hold",
     risk_level |-> "Medium",
     historical_context |-> [similar_ipos_count |-> 0, benchmarks_analyzed |-> 1],
     last_updated |-> "now"]

\* the dict _get_fallback_hype_score returns
get_fallback_hype_score ==
    [hype_score |-> 50000,
     component_scores |->
         [financial_score |-> 50000, trend_score |-> 50000,
          sentiment_score |-> 50000, performance_score |-> 50000,
          similarity_score |-> 30000],
     analysis |-> << "Historical analysis unavailable" >>,
     key_factors |-> << << "Limited historical data available" >> >>,
     recommendation |-> "Hold",
     risk_level |-> "High",
     historical_context |-> [similar_ipos_count |-> 0, benchmarks_analyzed |-> 0],
     last_updated |-> "now"]

(***************************************************************************)
(* The normalizer, OpenAIService._get_historical_analysis.  A raw input is *)
(* a record of nullable fields: None is an absent key.  error is "None" or *)
(* the upstream error text.                                                *)
(***************************************************************************)
\* dict.get(key, default) on a nullable field
Get(field, default) == IF IsNone(field) THEN default ELSE Val(field)

\* a flag that forgets the upstream error
TrendDataAvailable_no_error(sd) ==
    \/ (~IsNone(sd.trend_score) /\ Val(sd.trend_score) > 0)
    \/ Get(sd.average_interest, 0) > 0
    \/ Get(sd.recent_interest, 0) > 0

\* trend_data_available (lines 80-84)
TrendDataAvailable(sd) ==
    /\ \/ (~IsNone(sd.trend_score) /\ Val(sd.trend_score) > 0)
       \/ Get(sd.average_interest, 0) > 0
       \/ Get(sd.recent_interest, 0) > 0
    /\ sd.error = "None"

\* news_data_available (lines 86-88)
NewsDataAvailable(nd) ==
    Get(nd.total_articles, 0) > 0 /\ nd.error = "None"

\* current_ipo_data (lines 90-116), the fields the core reads
get_historical_analysis(sd, nd, st) ==
    [sector |-> Get(st.sector, ""),
     industry |-> Get(st.industry, ""),
     implied_market_cap |-> Get(st.market_cap, 0),
     revenue_growth_yoy |-> Get(st.revenue_growth_yoy, 0),
     gross_margin |-> Get(st.gross_margin, 0),
     trend_score |-> Get(sd.trend_score, 0),
     trend_average_interest |-> Get(sd.average_interest, 0),
     trend_recent_interest |-> Get(sd.recent_interest, 0),
     trend_data_available |-> TrendDataAvailable(sd),
     trend_error |-> sd.error,
     sentiment_score |-> Get(nd.sentiment_score, 0),
     news_total_articles |-> Get(nd.total_articles, 0),
     news_data_available |-> NewsDataAvailable(nd),
     news_error |-> nd.error,
     malformed |-> {}]

(***************************************************************************)
(* analyze_ipo_hype_score: the six awaited steps and the handler of its    *)
(* try block.  pc names the step about to run.                             *)
(***************************************************************************)
Pending == [status |-> "pending"]

\* except Exception: return await self._get_fallback_hype_score(...)
ExceptResult == get_fallback_hype_score

store_vars == << stored >>
llm_vars == << api_key, llm_result >>
ext_vars == << tasks, created_pools, store_vars, llm_vars >>
db_vars == << db_url, db_up, historical_ipos, historical_search_trends,
              historical_news_sentiment, current_ipo, ext_vars >>
raw_vars == << search_data, news_data, stock_data >>
pct_vars == << value, data, rank_out, score_out, raw_vars >>

FindSimilar ==
    /\ pc = "find_similar"
    /\ \E fail \in BOOLEAN :
           similar_ipos' = find_similar_historical_ipos(current_ipo, fail)
    /\ db_pool' = PoolAfter
    /\ pc' = "benchmarks"
    /\ UNCHANGED << db_vars, pct_vars, benchmarks, search_analysis,
                    sentiment_analysis, performance_predictions, result, raised >>

CalcBenchmarks ==
    /\ pc = "benchmarks"
    /\ \E fail \in 0..3 :
           benchmarks' = calculate_historical_benchmarks(current_ipo, similar_ipos, fail)
    /\ db_pool' = PoolAfter
    /\ pc' = "trends"
    /\ UNCHANGED << db_vars, pct_vars, similar_ipos, search_analysis,
                    sentiment_analysis, performance_predictions, result, raised >>

AnalyzeTrends ==
    /\ pc = "trends"
    /\ "trend_score" \notin current_ipo.malformed
    /\ \E fail \in 0..2 :
           search_analysis' =
               analyze_search_trends_historically(current_ipo, similar_ipos, fail)
    /\ db_pool' = PoolAfter
    /\ pc' = "sentiment"
    /\ UNCHANGED << db_vars, pct_vars, similar_ipos, benchmarks,
                    sentiment_analysis, performance_predictions, result, raised >>

\* float(current_trend_score) raises on a value that is not a number (line 367)
AnalyzeTrendsRaises ==
    /\ pc = "trends"
    /\ "trend_score" \in current_ipo.malformed
    /\ db_pool' = PoolAfter
    /\ pc' = "except"
    /\ raised' = "trends"
    /\ UNCHANGED << db_vars, pct_vars, similar_ipos, benchmarks, search_analysis,
                    sentiment_analysis, performance_predictions, result >>

AnalyzeSentiment ==
    /\ pc = "sentiment"
    /\ "sentiment_score" \notin current_ipo.malformed
    /\ \E fail \in 0..2 :
           sentiment_analysis' =
               analyze_sentiment_historically(current_ipo, similar_ipos, fail)
    /\ db_pool' = PoolAfter
    /\ pc' = "performance"
    /\ UNCHANGED << db_vars, pct_vars, similar_ipos, benchmarks,
                    search_analysis, performance_predictions, result, raised >>

\* float(sentiment_score) raises on a value that is not a number (line 429)
AnalyzeSentimentRaises ==
    /\ pc = "sentiment"
    /\ "sentiment_score" \in current_ipo.malformed
    /\ pc' = "except"
    /\ raised' = "sentiment"
    /\ UNCHANGED << db_vars, pct_vars, db_pool, similar_ipos, benchmarks,
                    search_analysis, sentiment_analysis, performance_predictions,
                    result >>

PredictPerformance ==
    /\ pc = "performance"
    /\ \E fail \in BOOLEAN :
           /\ ~predict_performance_raises(similar_ipos, fail)
           /\ performance_predictions' =
                  predict_performance_from_history(similar_ipos, fail)
    /\ db_pool' = PoolAfter
    /\ pc' = "generate"
    /\ UNCHANGED << db_vars, pct_vars, similar_ipos, benchmarks,
                    search_analysis, sentiment_analysis, result, raised >>

\* statistics.median of an empty list raises StatisticsError
PredictPerformanceRaises ==
    /\ pc = "performance"
    /\ \E fail \in BOOLEAN : predict_performance_raises(similar_ipos, fail)
    /\ db_pool' = PoolAfter
    /\ pc' = "except"
    /\ raised' = "performance"
    /\ UNCHANGED << db_vars, pct_vars, similar_ipos, benchmarks, search_analysis,
                    sentiment_analysis, performance_predictions, result >>

GenerateScore ==
    /\ pc = "generate"
    /\ result' = generate_data_backed_hype_score(similar_ipos, benchmarks,
                     search_analysis, sentiment_analysis, performance_predictions)
    /\ pc' = "done"
    /\ UNCHANGED << db_vars, pct_vars, db_pool, similar_ipos, benchmarks,
                    search_analysis, sentiment_analysis, performance_predictions,
                    raised >>

ExceptHandler ==
    /\ pc = "except"
    /\ result' = ExceptResult
    /\ pc' = "done"
    /\ UNCHANGED << db_vars, pct_vars, db_pool, similar_ipos, benchmarks,
                    search_analysis, sentiment_analysis, performance_predictions,
                    raised >>

\* one call of _calculate_percentile_rank(value, data)
CalcPercentileRank ==
    /\ pc = "percentile"
    /\ rank_out' = Some(calculate_percentile_rank(value, data))
    /\ pc' = "done"
    /\ UNCHANGED << db_vars, db_pool, similar_ipos, benchmarks, search_analysis,
                    sentiment_analysis, performance_predictions, result, raised,
                    value, data, score_out, raw_vars >>

\* _get_historical_analysis builds the feature record and hands it to the core
Normalize ==
    /\ pc = "normalize"
    /\ current_ipo' = get_historical_analysis(search_data, news_data, stock_data)
    /\ pc' = "find_similar"
    /\ UNCHANGED << db_url, db_up, db_pool, historical_ipos,
                    historical_search_trends, historical_news_sentiment,
                    ext_vars, pct_vars, similar_ipos, benchmarks, search_analysis,
                    sentiment_analysis, performance_predictions, result, raised >>

\* one call of a component scorer on the step results it reads
CalcTrendScore ==
    /\ pc = "trend_score"
    /\ score_out' = Some(calculate_trend_score(search_analysis))
    /\ pc' = "done"
    /\ UNCHANGED << db_vars, db_pool, similar_ipos, benchmarks, search_analysis,
                    sentiment_analysis, performance_predictions, result, raised,
                    value, data, rank_out, raw_vars >>

CalcSentimentScore ==
    /\ pc = "sentiment_score"
    /\ score_out' = Some(calculate_sentiment_score(sentiment_analysis))
    /\ pc' = "done"
    /\ UNCHANGED << db_vars, db_pool, similar_ipos, benchmarks, search_analysis,
                    sentiment_analysis, performance_predictions, result, raised,
                    value, data, rank_out, raw_vars >>

CalcFinancialScore ==
    /\ pc = "financial_score"
    /\ score_out' = Some(calculate_financial_score(benchmarks))
    /\ pc' = "done"
    /\ UNCHANGED << db_vars, db_pool, similar_ipos, benchmarks, search_analysis,
                    sentiment_analysis, performance_predictions, result, raised,
                    value, data, rank_out, raw_vars >>

CalcPerformanceScore ==
    /\ pc = "performance_score"
    /\ score_out' = Some(calculate_performance_score(performance_predictions))
    /\ pc' = "done"
    /\ UNCHANGED << db_vars, db_pool, similar_ipos, benchmarks, search_analysis,
                    sentiment_analysis, performance_predictions, result, raised,
                    value, data, rank_out, raw_vars >>

(***************************************************************************)
(* Inputs.                                                                 *)
(***************************************************************************)
\* the sequences over S of length at most n
SeqsUpTo(S, n) == UNION {[1..k -> S] : k \in 0..n}

\* the rows of t whose index is in S, in the order of t
SubTable(t, S) == LET RECURSIVE Pick(_)
                      Pick(i) == IF i > Len(t) THEN << >>
                                 ELSE (IF i \in S THEN << t[i] >> ELSE << >>)
                                      \o Pick(i + 1)
                  IN  Pick(1)

TrendSamples == <<
    [ticker |-> << 1, 1 >>, score |-> Some(160), age |-> 10],
    [ticker |-> << 6, 1 >>, score |-> Some(60), age |-> 20],
    [ticker |-> << 1, 1 >>, score |-> None, age |-> 5],
    [ticker |-> << 6, 1 >>, score |-> Some(190), age |-> 700] >>

SentimentSamples == <<
    [ticker |-> << 1, 1 >>, score |-> Some(30), age |-> 10],
    [ticker |-> << 6, 1 >>, score |-> Some(-20), age |-> 20] >>

\* the feature record of the company under analysis
Company(cap, growth, sector, trend, sentiment, malformed) ==
    [sector |-> sector, industry |-> "Software",
     implied_market_cap |-> cap, revenue_growth_yoy |-> growth,
     gross_margin |-> 5500,
     trend_score |-> trend.score,
     trend_average_interest |-> trend.average,
     trend_recent_interest |-> trend.recent,
     trend_data_available |-> trend.available,
     trend_error |-> trend.error,
     sentiment_score |-> sentiment.score,
     news_total_articles |-> sentiment.articles,
     news_data_available |-> sentiment.available,
     news_error |-> sentiment.error,
     malformed |-> malformed]

TrendInputs ==
    {t \in [score : {0, 140}, average : {0, 10}, recent : {0, 10},
            available : BOOLEAN, error : {"None", "timeout"}] :
        t.average = 0 \/ t.recent = 0}

SentimentInputs ==
    [score : {-20, 30}, articles : {0, 5},
     available : BOOLEAN, error : {"None", "timeout"}]

LiveTrend == [score |-> 140, average |-> 10, recent |-> 10,
              available |-> TRUE, error |-> "None"]
NoTrend == [score |-> 0, average |-> 0, recent |-> 0,
            available |-> FALSE, error |-> "timeout"]
LiveSentiment == [score |-> 30, articles |-> 5,
                  available |-> TRUE, error |-> "None"]
NoSentiment == [score |-> 0, articles |-> 0,
                available |-> FALSE, error |-> "timeout"]

NoCopies == [k \in 1..NumKinds |-> 0]

\* raw inputs with every key absent
NoSearchData == [trend_score |-> None, average_interest |-> None,
                 recent_interest |-> None, error |-> "None"]
NoNewsData == [total_articles |-> None, sentiment_score |-> None, error |-> "None"]
NoStockData == [sector |-> None, industry |-> None, market_cap |-> None,
                revenue_growth_yoy |-> None, gross_margin |-> None]

RawIdle == /\ search_data = NoSearchData
           /\ news_data = NoNewsData
           /\ stock_data = NoStockData

\* no concurrent call has been started
TasksIdle == tasks = << >> /\ created_pools = {}

\* the population script has stored nothing
StoreIdle == stored = None

\* generate_hype_score has not been called
LlmIdle == api_key = FALSE /\ llm_result = None

ExtIdle == TasksIdle /\ StoreIdle /\ LlmIdle

PctIdle == value = 0 /\ data = << >> /\ rank_out = None /\ score_out = None
               /\ RawIdle

StepsIdle ==
    /\ similar_ipos = << >>
    /\ benchmarks = << >>
    /\ search_analysis = Pending
    /\ sentiment_analysis = Pending
    /\ performance_predictions = Pending
    /\ result = Pending
    /\ raised = "none"

\* the database: not configured, configured and down, or up with some tables
Database(ipo_tables, trend_tables, sentiment_tables) ==
    /\ \/ /\ db_url \in BOOLEAN
          /\ db_up = FALSE
          /\ historical_ipos = << >>
          /\ historical_search_trends = << >>
          /\ historical_news_sentiment = << >>
       \/ /\ db_url = TRUE
          /\ db_up = TRUE
          /\ historical_ipos \in ipo_tables
          /\ historical_search_trends \in trend_tables
          /\ historical_news_sentiment \in sentiment_tables

(***************************************************************************)
(* Spec: one call of analyze_ipo_hype_score.                               *)
(***************************************************************************)
PipelineIpoTables ==
    {IpoTable([k \in 1..NumKinds |-> IF k \in S THEN 1 ELSE 0], 1) :
        S \in SUBSET {1, 2, 4, 6}}

Init ==
    /\ ExtIdle
    /\ Database(PipelineIpoTables,
                {<< >>, TrendSamples},
                {<< >>, SentimentSamples})
    /\ \E cap \in {0, 10}, trend \in {LiveTrend, NoTrend},
          sentiment \in {LiveSentiment, NoSentiment},
          malformed \in {{}, {"trend_score"}, {"sentiment_score"}} :
           current_ipo = Company(cap, 4000, "Tech", trend, sentiment, malformed)
    /\ db_pool = "None"
    /\ pc = "find_similar"
    /\ StepsIdle
    /\ PctIdle

Next ==
    \/ FindSimilar
    \/ CalcBenchmarks
    \/ AnalyzeTrends
    \/ AnalyzeTrendsRaises
    \/ AnalyzeSentiment
    \/ AnalyzeSentimentRaises
    \/ PredictPerformance
    \/ PredictPerformanceRaises
    \/ GenerateScore
    \/ ExceptHandler

Spec == Init /\ [][Next]_vars

(***************************************************************************)
(* SpecMatcher: step 1 alone, over corpora large enough to fill the top    *)
(* ten.  Kinds 1 to 4 come in 0..MaxCopies copies, the others in 0 or 1.   *)
(***************************************************************************)
MatcherIpoTables ==
    {IpoTable(cnt, 1) :
        cnt \in {c \in [1..NumKinds -> 0..MaxCopies] :
                    \A k \in 5..NumKinds : c[k] <= 1}}

InitMatcher ==
    /\ ExtIdle
    /\ Database(MatcherIpoTables, {<< >>}, {<< >>})
    /\ \E cap \in {0, 10}, growth \in {0, 50, 4000}, sector \in {"", "Tech"} :
           current_ipo = Company(cap, growth, sector, LiveTrend, LiveSentiment, {})
    /\ db_pool = "None"
    /\ pc = "find_similar"
    /\ StepsIdle
    /\ PctIdle

NextMatcher == FindSimilar

SpecMatcher == InitMatcher /\ [][NextMatcher]_vars

(***************************************************************************)
(* SpecAnalysis: steps 3 and 4 from the state steps 1 and 2 leave, over    *)
(* all the trend and news inputs.                                          *)
(***************************************************************************)
InitAnalysis ==
    /\ ExtIdle
    /\ Database({IpoTable(NoCopies, 1),
                 IpoTable([NoCopies EXCEPT ![1] = 1], 1)},
                {SubTable(TrendSamples, S) : S \in SUBSET {1, 2, 3}},
                {SubTable(SentimentSamples, S) :
                    S \in SUBSET (1..Len(SentimentSamples))})
    /\ \E trend \in TrendInputs, sentiment \in SentimentInputs :
           current_ipo = Company(10, 4000, "Tech", trend, sentiment, {})
    /\ db_pool = "None"
    /\ similar_ipos = find_similar_historical_ipos(current_ipo, FALSE)
    /\ benchmarks = calculate_historical_benchmarks(current_ipo, similar_ipos, 0)
    /\ pc = "trends"
    /\ search_analysis = Pending
    /\ sentiment_analysis = Pending
    /\ performance_predictions = Pending
    /\ result = Pending
    /\ raised = "none"
    /\ PctIdle

NextAnalysis == AnalyzeTrends \/ AnalyzeSentiment

SpecAnalysis == InitAnalysis /\ [][NextAnalysis]_vars

(***************************************************************************)
(* SpecCompose: step 6 and the handler, over the values the five           *)
(* analyses can hand to the composer.                                      *)
(***************************************************************************)
CompanyA == Company(10, 4000, "Tech", LiveTrend, LiveSentiment, {})

\* n peers, each a match of row kind k
Peers(k, n) == [j \in 1..n |-> MakeMatch(IpoRow(k, j), CompanyA)]

ComposePeers == {Peers(k, n) : k \in {1, 4}, n \in {0, 1, TopMatches}}

ComposeBenchmarks ==
    {<< >>}
    \cup {<< [MakeBenchmark("Revenue Growth YoY", 4000, << >>, << >>)
                 EXCEPT !.percentile_rank = p, !.similar_ipos_percentile = q] >> :
              p \in {0, 99000}, q \in {0, 99000}}

ComposeTrend ==
    {[analyze_search_trends_historically(CompanyA, << >>, 1)
         EXCEPT !.effective_percentile = p, !.similar_ipos_percentile = p,
                !.trend_strength = s, !.data_confidence = c,
                !.used_historical_fallback = (c # 100),
                !.fallback_source = IF c = 100 THEN "live"
                                    ELSE IF c = 75 THEN "similar" ELSE "historical"] :
        p \in {0, 99000}, s \in {"Weak", "Exceptional"}, c \in {100, 75, 60}}

ComposeSentiment ==
    {[analyze_sentiment_historically(CompanyA, << >>, 1)
         EXCEPT !.effective_percentile = p, !.similar_ipos_percentile = p,
                !.sentiment_strength = s, !.data_confidence = c,
                !.used_historical_fallback = (c # 100),
                !.fallback_source = IF c = 100 THEN "live"
                                    ELSE IF c = 70 THEN "similar" ELSE "historical"] :
        p \in {0, 99000}, s \in {"Negative", "Extremely Positive"},
        c \in {100, 70, 55}}

ComposePerformance ==
    {[predicted_first_day_return |-> r, predicted_first_week_return |-> r,
      predicted_first_month_return |-> r, performance_volatility |-> v,
      historical_sample_size |-> n,
      risk_level |-> IF v > 600 THEN "High" ELSE IF v > 300 THEN "Medium" ELSE "Low"] :
        r \in {-1200, 0, 1200}, v \in {0, 1200}, n \in {1, 5}}

InitCompose ==
    /\ ExtIdle
    /\ db_url = TRUE /\ db_up = TRUE /\ db_pool = "pool"
    /\ historical_ipos = << >>
    /\ historical_search_trends = << >>
    /\ historical_news_sentiment = << >>
    /\ current_ipo = CompanyA
    /\ similar_ipos \in ComposePeers
    /\ benchmarks \in ComposeBenchmarks
    /\ search_analysis \in ComposeTrend
    /\ sentiment_analysis \in ComposeSentiment
    /\ \/ /\ pc = "generate"
          /\ performance_predictions \in ComposePerformance
          /\ raised = "none"
       \/ /\ pc = "except"
          /\ performance_predictions = Pending
          /\ raised = "performance"
    /\ result = Pending
    /\ PctIdle

NextCompose == GenerateScore \/ ExceptHandler

SpecCompose == InitCompose /\ [][NextCompose]_vars

(***************************************************************************)
(* SpecPercentile: _calculate_percentile_rank on every value and data set  *)
(* of at most MaxData values.                                              *)
(***************************************************************************)
PercentileValues == {-20, 0, 30, 70}

InitPercentile ==
    /\ ExtIdle
    /\ db_url = FALSE /\ db_up = FALSE /\ db_pool = "None"
    /\ historical_ipos = << >>
    /\ historical_search_trends = << >>
    /\ historical_news_sentiment = << >>
    /\ current_ipo = CompanyA
    /\ StepsIdle
    /\ pc = "percentile"
    /\ value \in PercentileValues
    /\ data \in SeqsUpTo(PercentileValues, MaxData)
    /\ rank_out = None
    /\ score_out = None
    /\ RawIdle

NextPercentile == CalcPercentileRank

SpecPercentile == InitPercentile /\ [][NextPercentile]_vars

(***************************************************************************)
(* The normalizer on raw inputs with absent, zero and positive fields.     *)
(***************************************************************************)
SearchDataInputs ==
    [trend_score : {None, Some(0), Some(140)},
     average_interest : {None, Some(0), Some(10)},
     recent_interest : {None, Some(0), Some(10)},
     error : {"None", "timeout"}]

NewsDataInputs ==
    [total_articles : {None, Some(0), Some(5)},
     sentiment_score : {None, Some(30)},
     error : {"None", "timeout"}]

StockDataInputs ==
    [sector : {None, Some("Tech")},
     industry : {Some("Software")},
     market_cap : {None, Some(10)},
     revenue_growth_yoy : {None, Some(4000)},
     gross_margin : {Some(5500)}]

InitNormalizer ==
    /\ ExtIdle
    /\ db_url = FALSE /\ db_up = FALSE /\ db_pool = "None"
    /\ historical_ipos = << >>
    /\ historical_search_trends = << >>
    /\ historical_news_sentiment = << >>
    /\ current_ipo = Pending
    /\ StepsIdle
    /\ pc = "normalize"
    /\ value = 0 /\ data = << >> /\ rank_out = None /\ score_out = None
    /\ search_data \in SearchDataInputs
    /\ news_data \in NewsDataInputs
    /\ stock_data \in StockDataInputs

NextNormalizer == Normalize

SpecNormalizer == InitNormalizer /\ [][NextNormalizer]_vars

(***************************************************************************)
(* The component scorers, each called once on the step result it reads.    *)
(***************************************************************************)
\* percentile ranks, in thousandths of a point
ScorePercentiles == {0, 20000, 50000, 83333, 95000, 100000}

\* trend analyses as step 3 returns them: percentile, strength, confidence
ScoreTrendInputs ==
    {[analyze_search_trends_historically(CompanyA, << >>, 1)
         EXCEPT !.effective_percentile = p, !.similar_ipos_percentile = p,
                !.trend_strength = s,
                !.used_historical_fallback = (src # "live"),
                !.data_available = (src = "live"),
                !.fallback_source = src,
                !.data_confidence = TrendConfidence(src # "live", src)] :
        p \in ScorePercentiles,
        s \in {"Exceptional", "Strong", "Moderate", "Weak"},
        src \in {"live", "similar"}}

\* sentiment analyses as step 4 returns them: the strength is the label of
\* the effective sentiment
ScoreSentimentInputs ==
    {[analyze_sentiment_historically(CompanyA, << >>, 1)
         EXCEPT !.effective_sentiment = e,
                !.sentiment_strength = SentimentStrength(e),
                !.effective_percentile = p, !.similar_ipos_percentile = p,
                !.used_historical_fallback = (src # "live"),
                !.data_available = (src = "live"),
                !.fallback_source = src,
                !.data_confidence = SentimentConfidence(src # "live", src)] :
        e \in {-20, -11, -10, 0, 4, 5, 20, 21, 40, 41},
        p \in ScorePercentiles,
        src \in {"live", "similar"}}

\* benchmark lists as step 2 returns them: the benchmarks appended before a
\* query raised; the peers carry no market cap
ScoreBenchmarkInputs ==
    {Take(<< MakeBenchmark("Revenue Growth YoY", v, h, p),
             MakeBenchmark("Gross Margin", v, p, h),
             MakeBenchmark("Market Cap", v, h, << >>) >>, n) :
        v \in {0, 4000, 9500},
        h \in SeqsUpTo({0, 9000}, MaxData),
        p \in SeqsUpTo({0, 9000}, MaxData),
        n \in 0..3}

\* predictions as step 5 returns them
ScorePerformanceInputs ==
    {[predicted_first_day_return |-> r, predicted_first_week_return |-> r,
      predicted_first_month_return |-> r, performance_volatility |-> v,
      historical_sample_size |-> 2,
      risk_level |-> IF v > 600 THEN "High" ELSE IF v > 300 THEN "Medium" ELSE "Low"] :
        r \in {-1200, -1000, -400, 0, 400, 1000, 1200},
        v \in {0, 300, 500, 800, 1000, 1200}}

InitScores ==
    /\ ExtIdle
    /\ db_url = FALSE /\ db_up = FALSE /\ db_pool = "None"
    /\ historical_ipos = << >>
    /\ historical_search_trends = << >>
    /\ historical_news_sentiment = << >>
    /\ current_ipo = CompanyA
    /\ similar_ipos = << >>
    /\ result = Pending
    /\ raised = "none"
    /\ PctIdle
    /\ \/ /\ pc = "trend_score"
          /\ search_analysis \in ScoreTrendInputs
          /\ sentiment_analysis = Pending
          /\ benchmarks = << >>
          /\ performance_predictions = Pending
       \/ /\ pc = "sentiment_score"
          /\ search_analysis = Pending
          /\ sentiment_analysis \in ScoreSentimentInputs
          /\ benchmarks = << >>
          /\ performance_predictions = Pending
       \/ /\ pc = "financial_score"
          /\ search_analysis = Pending
          /\ sentiment_analysis = Pending
          /\ benchmarks \in ScoreBenchmarkInputs
          /\ performance_predictions = Pending
       \/ /\ pc = "performance_score"
          /\ search_analysis = Pending
          /\ sentiment_analysis = Pending
          /\ benchmarks = << >>
          /\ performance_predictions \in ScorePerformanceInputs

NextScores ==
    \/ CalcTrendScore
    \/ CalcSentimentScore
    \/ CalcFinancialScore
    \/ CalcPerformanceScore

SpecScores == InitScores /\ [][NextScores]_vars

(***************************************************************************)
(* Concurrent analyses.  main.py keeps one HistoricalAnalysisService for   *)
(* the process, and every request runs analyze_ipo_hype_score on it as a   *)
(* coroutine: control passes to another coroutine only at an await that    *)
(* suspends (create_pool, pool.acquire, conn.fetch, the release at the end *)
(* of the async-with block).  A task is one running call:                  *)
(*   pc       position inside the current step                             *)
(*   step     1..5, the step of analyze_ipo_hype_score being run           *)
(*   pool     the local variable pool of the step ("None" or a pool)       *)
(*   conn     the pool whose connection the call holds, "None" if none     *)
(*   queries  conn.fetch calls still to be issued inside the block         *)
(*   raising  an exception is propagating out of the block                 *)
(*   outcome  "none" while running, then "computed" or "fallback"          *)
(***************************************************************************)
Tasks == 1..NumTasks

\* the pool object the create_pool call of task t returns
PoolNames == << "pool", "pool_2", "pool_3", "pool_4" >>
CreatedPool(t) == PoolNames[t]

\* conn.fetch calls inside the async-with block of steps 1..5 (the peer query
\* of steps 3 and 4 is issued only when there are peers)
QueriesIn == << {1}, {3}, {1, 2}, {1, 2}, {1} >>

TaskStart == [pc |-> "get_pool", step |-> 1, pool |-> "None", conn |-> "None",
              queries |-> 0, raising |-> FALSE, outcome |-> "none"]

\* what the call holds once __aexit__ of `async with pool.acquire()` has run
ReleaseOnExit_success_only(conn, raising) == IF raising THEN conn ELSE "None"

ReleaseOnExit(conn, raising) == "None"

\* _get_db_pool up to its first suspension
GetDbPool(t) ==
    /\ tasks[t].pc = "get_pool"
    /\ tasks' = IF ~db_url
                THEN [tasks EXCEPT ![t].pool = "None", ![t].pc = "after_block"]
                ELSE IF db_pool = "None"
                THEN [tasks EXCEPT ![t].pc = "create_pool"]
                ELSE [tasks EXCEPT ![t].pool = db_pool, ![t].pc = "acquire"]
    /\ UNCHANGED << db_pool, created_pools >>

\* await asyncpg.create_pool(...) completes: the assignment to self.db_pool
\* and the return, or the except branch
CreatePool(t) ==
    /\ tasks[t].pc = "create_pool"
    /\ IF db_up
       THEN /\ db_pool' = CreatedPool(t)
            /\ created_pools' = created_pools \cup {CreatedPool(t)}
            /\ tasks' = [tasks EXCEPT ![t].pool = CreatedPool(t),
                                      ![t].pc = "acquire"]
       ELSE /\ tasks' = [tasks EXCEPT ![t].pool = "None",
                                      ![t].pc = "after_block"]
            /\ UNCHANGED << db_pool, created_pools >>

\* __aenter__ of `async with pool.acquire() as conn`
Acquire(t) ==
    /\ tasks[t].pc = "acquire"
    /\ \E ok \in BOOLEAN, n \in QueriesIn[tasks[t].step] :
           tasks' = IF ok
                    THEN [tasks EXCEPT ![t].conn = tasks[t].pool,
                                       ![t].queries = n, ![t].pc = "query"]
                    ELSE [tasks EXCEPT ![t].raising = TRUE,
                                       ![t].pc = "after_block"]
    /\ UNCHANGED << db_pool, created_pools >>

\* one await conn.fetch(...) inside the block returns or raises
Query(t) ==
    /\ tasks[t].pc = "query"
    /\ \E ok \in BOOLEAN :
           tasks' = IF ~ok
                    THEN [tasks EXCEPT ![t].raising = TRUE, ![t].queries = 0,
                                       ![t].pc = "exit"]
                    ELSE IF tasks[t].queries > 1
                    THEN [tasks EXCEPT ![t].queries = @ - 1]
                    ELSE [tasks EXCEPT ![t].queries = 0, ![t].pc = "exit"]
    /\ UNCHANGED << db_pool, created_pools >>

\* __aexit__ of the async-with block, on the normal and on the raising path
ExitBlock(t) ==
    /\ tasks[t].pc = "exit"
    /\ tasks' = [tasks EXCEPT
                    ![t].conn = ReleaseOnExit(tasks[t].conn, tasks[t].raising),
                    ![t].pc = "after_block"]
    /\ UNCHANGED << db_pool, created_pools >>

\* the rest of the step (the except branch included); after step 5 the
\* medians, step 6 and the return, or the handler of analyze_ipo_hype_score
AfterBlock(t) ==
    /\ tasks[t].pc = "after_block"
    /\ IF tasks[t].step < 5
       THEN tasks' = [tasks EXCEPT ![t].step = @ + 1, ![t].pool = "None",
                                   ![t].raising = FALSE, ![t].pc = "get_pool"]
       ELSE \E no_returns \in BOOLEAN :
                tasks' = [tasks EXCEPT
                    ![t].outcome = IF \/ tasks[t].pool = "None"
                                      \/ tasks[t].raising
                                      \/ no_returns
                                   THEN "fallback" ELSE "computed",
                    ![t].pool = "None", ![t].raising = FALSE,
                    ![t].pc = "done"]
    /\ UNCHANGED << db_pool, created_pools >>

InitConcurrent ==
    /\ db_url \in BOOLEAN /\ db_up \in BOOLEAN /\ db_pool = "None"
    /\ historical_ipos = << >>
    /\ historical_search_trends = << >>
    /\ historical_news_sentiment = << >>
    /\ current_ipo = CompanyA
    /\ StepsIdle
    /\ PctIdle
    /\ pc = "concurrent"
    /\ tasks = [t \in Tasks |-> TaskStart]
    /\ created_pools = {}
    /\ StoreIdle
    /\ LlmIdle

TaskStep(t) ==
    /\ \/ GetDbPool(t)
       \/ CreatePool(t)
       \/ Acquire(t)
       \/ Query(t)
       \/ ExitBlock(t)
       \/ AfterBlock(t)
    /\ UNCHANGED << db_url, db_up, historical_ipos, historical_search_trends,
                    historical_news_sentiment, current_ipo, pc, similar_ipos,
                    benchmarks, search_analysis, sentiment_analysis,
                    performance_predictions, result, raised, pct_vars,
                    store_vars, llm_vars >>

NextConcurrent == \E t \in Tasks : TaskStep(t)

SpecConcurrent == InitConcurrent /\ [][NextConcurrent]_vars

(***************************************************************************)
(* The population script, scripts/populate_historical_data.py.  An         *)
(* ipo_data record carries the key (ticker, ipo_date), the required fields *)
(* name and ipo_price, the ten optional fields and data_completeness; a    *)
(* row of historical_ipos has the same fields.  Numeric fields are         *)
(* nullable, a text field is "" when empty.  Completeness is in fortieths  *)
(* (1.0 = 40): a required field weighs 1/4, an optional one 0.5/10.        *)
(***************************************************************************)
OptionalFields ==
    {"revenue", "net_income", "revenue_growth_yoy", "gross_margin",
     "operating_margin", "free_cash_flow", "market_cap_at_ipo",
     "first_day_return", "first_week_return", "first_month_return"}

\* `if ipo_data.get(field)` on a numeric field: None and 0 do not count
TruthyNum(v) == ~IsNone(v) /\ Val(v) # 0

\* required_count: name, ticker, ipo_date (a datetime, always true), ipo_price
RequiredCount(ipo_data) ==
    (IF ipo_data.name # "" THEN 1 ELSE 0)
    + (IF ipo_data.ticker # "" THEN 1 ELSE 0)
    + 1
    + (IF TruthyNum(ipo_data.ipo_price) THEN 1 ELSE 0)

OptionalCount(ipo_data) ==
    Cardinality({f \in OptionalFields : TruthyNum(ipo_data[f])})

\* the sum without min(1.0, ...)
calculate_data_completeness_unclamped(ipo_data) ==
    10 * RequiredCount(ipo_data) + 2 * OptionalCount(ipo_data)

\* calculate_data_completeness
calculate_data_completeness(ipo_data) ==
    Min2(40, 10 * RequiredCount(ipo_data) + 2 * OptionalCount(ipo_data))

\* SELECT id FROM historical_ipos WHERE ticker = $1 AND ipo_date = $2
Existing_never(table, ipo_data) == {}

Existing(table, ipo_data) ==
    {i \in 1..Len(table) : /\ table[i].ticker = ipo_data.ticker
                           /\ table[i].ipo_date = ipo_data.ipo_date}

\* UPDATE ... SET <every other column> WHERE ticker = $27 AND ipo_date = $28
UpdatedRow(row, ipo_data) ==
    [f \in DOMAIN row |->
        IF f \in {"ticker", "ipo_date"} THEN row[f] ELSE ipo_data[f]]

\* the table after a store_ipo_data call whose statements succeed
store_ipo_data(table, ipo_data) ==
    IF Existing(table, ipo_data) # {}
    THEN [i \in 1..Len(table) |->
             IF i \in Existing(table, ipo_data)
             THEN UpdatedRow(table[i], ipo_data) ELSE table[i]]
    ELSE Append(table, ipo_data)

\* the optional fields a source provides: none, half of them (one of them a
\* zero), all of them
OptionalValues ==
    {[f \in OptionalFields |-> None],
     [f \in OptionalFields |->
         IF f \in {"revenue", "net_income", "gross_margin", "first_day_return"}
         THEN Some(5)
         ELSE IF f = "revenue_growth_yoy" THEN Some(0) ELSE None],
     [f \in OptionalFields |-> Some(5)]}

\* the record process_ipo_row builds: data_completeness is computed last
IpoData(name, ticker, ipo_date, ipo_price, optional) ==
    LET fields == [f \in OptionalFields \cup
                         {"name", "ticker", "ipo_date", "ipo_price"} |->
                      CASE f = "name" -> name
                        [] f = "ticker" -> ticker
                        [] f = "ipo_date" -> ipo_date
                        [] f = "ipo_price" -> ipo_price
                        [] OTHER -> optional[f]]
    IN  [f \in DOMAIN fields \cup {"data_completeness"} |->
            IF f = "data_completeness"
            THEN calculate_data_completeness(fields) ELSE fields[f]]

\* the (ticker, ipo_date) pairs of the source rows: one ticker listed on two
\* dates, two tickers listed on one date
StoreKeys == {<< "AAA", 1 >>, << "AAA", 2 >>, << "BBB", 1 >>}

IpoDataInputs ==
    {IpoData(name, key[1], key[2], Some(20), optional) :
        name \in {"", "Acme"}, key \in StoreKeys, optional \in OptionalValues}

\* one store_ipo_data call: no pool or a failed statement returns False and
\* leaves the table alone
StoreIpoData ==
    /\ pc = "store"
    /\ \E ipo_data \in IpoDataInputs, fail \in BOOLEAN :
           IF db_pool = "None" \/ fail
           THEN /\ stored' = Some([ok |-> FALSE, ipo_data |-> ipo_data])
                /\ UNCHANGED historical_ipos
           ELSE /\ stored' = Some([ok |-> TRUE, ipo_data |-> ipo_data])
                /\ historical_ipos' = store_ipo_data(historical_ipos, ipo_data)
    /\ UNCHANGED << db_url, db_up, db_pool, historical_search_trends,
                    historical_news_sentiment, current_ipo, pc, similar_ipos,
                    benchmarks, search_analysis, sentiment_analysis,
                    performance_predictions, result, raised, pct_vars,
                    tasks, created_pools, llm_vars >>

InitStore ==
    /\ db_url = TRUE /\ db_up \in BOOLEAN
    /\ db_pool = IF db_up THEN "pool" ELSE "None"
    /\ historical_ipos = << >>
    /\ historical_search_trends = << >>
    /\ historical_news_sentiment = << >>
    /\ current_ipo = Pending
    /\ StepsIdle
    /\ PctIdle
    /\ ExtIdle
    /\ pc = "store"

NextStore == StoreIpoData

SpecStore == InitStore /\ [][NextStore]_vars

(***************************************************************************)
(* OpenAIService.generate_hype_score after the core has returned.  A reply *)
(* of the model is [kind |-> "raise"] when _call_openai_api raises, or the *)
(* parsed JSON object, a record of nullable fields.  Scores are in         *)
(* thousandths of a point like the core's.                                 *)
(***************************************************************************)
\* _get_recommendation_from_score
get_recommendation_from_score(hype_score) ==
    IF hype_score >= 85000 THEN "Strong Buy"
    ELSE IF hype_score >= 70000 THEN "Buy"
    ELSE IF hype_score >= 50000 THEN "Hold"
    ELSE "Sell"

\* an except branch that answers with the default score
calculate_hype_score_with_ai_default(historical_analysis, reply) ==
    IF reply.kind = "raise"
    THEN [hype_score |-> 50000]
    ELSE [hype_score |->
             Round1(Max2(0, Min2(100000, Get(reply.hype_score, 50000))))]

\* _calculate_hype_score_with_ai once the prompt is built
calculate_hype_score_with_ai(historical_analysis, reply) ==
    IF reply.kind = "raise"
    THEN [hype_score |-> historical_analysis.hype_score]
    ELSE [hype_score |->
             Round1(Max2(0, Min2(100000, Get(reply.hype_score, 50000))))]

\* _generate_analysis_with_ai once the prompt is built
generate_analysis_with_ai(historical_analysis, hype_score, reply) ==
    IF reply.kind = "raise"
    THEN [analysis |-> historical_analysis.analysis,
          key_factors |-> historical_analysis.key_factors,
          recommendation |-> get_recommendation_from_score(hype_score),
          risk_level |-> historical_analysis.risk_level,
          market_outlook |-> ""]
    ELSE [analysis |-> Get(reply.analysis, << "response" >>),
          key_factors |-> Get(reply.key_factors, << >>),
          recommendation |->
              Get(reply.recommendation, get_recommendation_from_score(hype_score)),
          risk_level |-> Get(reply.risk_level, "Medium"),
          market_outlook |-> Get(reply.market_outlook, "")]

\* _build_result_dict; analysis_result is None on the path without a key
build_result_dict(historical_analysis, hype_score, analysis_result) ==
    IF ~IsNone(analysis_result)
    THEN [hype_score |-> hype_score,
          analysis |-> Val(analysis_result).analysis,
          key_factors |-> Val(analysis_result).key_factors,
          recommendation |-> Val(analysis_result).recommendation,
          risk_level |-> Val(analysis_result).risk_level,
          component_scores |-> historical_analysis.component_scores,
          historical_context |-> historical_analysis.historical_context,
          market_outlook |-> Val(analysis_result).market_outlook,
          last_updated |-> historical_analysis.last_updated]
    ELSE [hype_score |-> hype_score,
          analysis |-> historical_analysis.analysis,
          key_factors |-> historical_analysis.key_factors,
          recommendation |-> historical_analysis.recommendation,
          risk_level |-> historical_analysis.risk_level,
          component_scores |-> historical_analysis.component_scores,
          historical_context |-> historical_analysis.historical_context,
          last_updated |-> historical_analysis.last_updated]

\* generate_hype_score from line 48 on.  prompt_error: a number of the raw
\* data cannot be formatted, so building the first prompt raises outside
\* every try of the callees and the handler on lines 69-71 re-raises.
generate_hype_score(historical_analysis, key, prompt_error, score_reply, analysis_reply) ==
    IF ~key
    THEN [raised |-> "none",
          value |-> build_result_dict(historical_analysis,
                        historical_analysis.hype_score, None)]
    ELSE IF prompt_error
    THEN [raised |-> "TypeError", value |-> Pending]
    ELSE LET hype_score ==
                 calculate_hype_score_with_ai(historical_analysis,
                                              score_reply).hype_score
             analysis_result ==
                 generate_analysis_with_ai(historical_analysis, hype_score,
                                           analysis_reply)
         IN  [raised |-> "none",
              value |-> build_result_dict(historical_analysis, hype_score,
                                          Some(analysis_result))]

\* replies to the score prompt: an API error, an empty object, scores inside
\* and outside 0..100
ScoreReplies ==
    {[kind |-> "raise"],
     [kind |-> "json", hype_score |-> None],
     [kind |-> "json", hype_score |-> Some(42340)],
     [kind |-> "json", hype_score |-> Some(120000)]}

\* replies to the analysis prompt: an API error, an empty object, a full one
AnalysisReplies ==
    {[kind |-> "raise"],
     [kind |-> "json", analysis |-> None, key_factors |-> None,
      recommendation |-> None, risk_level |-> None, market_outlook |-> None],
     [kind |-> "json", analysis |-> Some(<< "analysis of the model" >>),
      key_factors |-> Some(<< << "Factor 1" >> >>),
      recommendation |-> Some("Buy"), risk_level |-> Some("Low"),
      market_outlook |-> Some("Positive")]}

\* the rest of generate_hype_score once the core has returned
GenerateHypeScore ==
    /\ pc = "done"
    /\ \E prompt_error \in BOOLEAN, score_reply \in ScoreReplies,
          analysis_reply \in AnalysisReplies :
           llm_result' =
               Some([score_reply |-> score_reply,
                     outcome |-> generate_hype_score(result, api_key,
                                     prompt_error, score_reply, analysis_reply)])
    /\ pc' = "returned"
    /\ UNCHANGED << db_url, db_up, db_pool, historical_ipos,
                    historical_search_trends, historical_news_sentiment,
                    current_ipo, similar_ipos, benchmarks, search_analysis,
                    sentiment_analysis, performance_predictions, result, raised,
                    pct_vars, tasks, created_pools, store_vars, api_key >>

InitLlm ==
    /\ TasksIdle
    /\ StoreIdle
    /\ api_key \in BOOLEAN
    /\ llm_result = None
    /\ Database(PipelineIpoTables, {TrendSamples}, {SentimentSamples})
    /\ \E trend \in {LiveTrend, NoTrend},
          malformed \in {{}, {"trend_score"}, {"sentiment_score"}} :
           current_ipo = Company(10, 4000, "Tech", trend, LiveSentiment, malformed)
    /\ db_pool = "None"
    /\ pc = "find_similar"
    /\ StepsIdle
    /\ PctIdle

NextLlm ==
    \/ Next
    \/ GenerateHypeScore

SpecLlm == InitLlm /\ [][NextLlm]_vars

(***************************************************************************)
(* Properties.                                                             *)
(***************************************************************************)
Computed == pc = "done" /\ raised = "none"

\* C1: every result of analyze_ipo_hype_score, computed or fallback, has a
\* hype_score between 35.0 and 100.0.
C1_HypeScoreInRange ==
    pc = "done" => result.hype_score >= 35000 /\ result.hype_score <= 100000

\* C1 witness: a computed result whose weighted sum lies below the floor.
C1_Witness ==
    /\ Computed
    /\ result.hype_score = 35000
    /\ final_hype_score_unclamped(
           base_hype_score(
               SubScores(similar_ipos, benchmarks, search_analysis,
                         sentiment_analysis, performance_predictions),
               Weights(component_confidences(similar_ipos, benchmarks,
                           search_analysis, sentiment_analysis,
                           performance_predictions)))) < 35000

\* C2: analyze_ipo_hype_score never lets an exception through: a step that
\* raises is followed by the handler, and the call returns the fixed fallback.
C2_NeverPropagates ==
    /\ pc = "except" => raised # "none" /\ ENABLED ExceptHandler
    /\ pc = "done" => "hype_score" \in DOMAIN result
    /\ pc = "done" /\ raised # "none" =>
           /\ result.hype_score = 50000
           /\ result.recommendation = "Hold"
           /\ result.historical_context.similar_ipos_count = 0

\* C2 witness: the performance step raised and the call returned the fallback.
C2_Witness ==
    /\ pc = "done"
    /\ raised = "performance"
    /\ search_analysis # Pending
    /\ result.hype_score = 50000

NoCorpus ==
    \/ ~db_url
    \/ ~db_up
    \/ /\ historical_ipos = << >>
       /\ historical_search_trends = << >>
       /\ historical_news_sentiment = << >>

\* C3: with the corpus empty or unreachable and errors on the trend and news
\* inputs, the result is exactly the fixed fallback.
C3_EmptyCorpusGivesFallback ==
    /\ pc = "done"
    /\ NoCorpus
    /\ current_ipo.trend_error # "None"
    /\ current_ipo.news_error # "None"
    => /\ result.hype_score = 50000
       /\ result.component_scores =
              [financial_score |-> 50000, trend_score |-> 50000,
               sentiment_score |-> 50000, performance_score |-> 50000,
               similarity_score |-> 30000]
       /\ result.recommendation = "Hold"
       /\ result.risk_level = "High"
       /\ result.historical_context =
              [similar_ipos_count |-> 0, benchmarks_analyzed |-> 0]

\* C3 witness: a reachable database whose tables are empty, errors on both
\* inputs, no malformed field, and the call has returned.
C3_Witness ==
    /\ pc = "done"
    /\ db_pool = "pool"
    /\ historical_ipos = << >>
    /\ current_ipo.trend_error # "None"
    /\ current_ipo.news_error # "None"
    /\ current_ipo.malformed = {}
    /\ sentiment_analysis # Pending
    /\ result.risk_level = "High"

\* C4: the five weights of the weighted sum are non-negative and sum to 1:
\* the numerators add up to the common denominator.
C4_WeightsSumToOne ==
    pc \in {"generate", "done"} /\ raised = "none" =>
        LET w == Weights(component_confidences(similar_ipos, benchmarks,
                     search_analysis, sentiment_analysis, performance_predictions))
        IN  /\ w.den > 0
            /\ \A k \in DOMAIN w.num : w.num[k] >= 0
            /\ SumWeighted(w.num) = w.den

\* C4 witness: a computed result whose confidences differ, so that the
\* weights are not the base weights.
C4_Witness ==
    /\ Computed
    /\ benchmarks = << >>
    /\ search_analysis.data_confidence = 60
    /\ sentiment_analysis.data_confidence = 100
    /\ result.weight_allocation.financial # 280

\* C5: the matcher returns at most 10 matches, each with a score of 0.30 or more.
C5_AtMostTenAboveThreshold ==
    /\ Len(similar_ipos) <= 10
    /\ \A i \in 1..Len(similar_ipos) : similar_ipos[i].similarity_score >= 30

AllCandidates ==
    LET rows == CandidateRows(MarketCapCategory(current_ipo.implied_market_cap),
                              current_ipo.sector)
    IN  [i \in 1..Len(rows) |-> MakeMatch(rows[i], current_ipo)]

\* C5 witness: more than ten candidates reach the threshold, one does not,
\* and ten are returned.
C5_Witness ==
    /\ pc = "benchmarks"
    /\ Len(similar_ipos) = 10
    /\ Cardinality({i \in 1..Len(AllCandidates) :
                       AllCandidates[i].similarity_score >= 30}) > 10
    /\ \E i \in 1..Len(AllCandidates) : AllCandidates[i].similarity_score < 30

ReturnedTickers == {similar_ipos[i].ticker : i \in 1..Len(similar_ipos)}

RetainedSet ==
    LET all == AllCandidates
    IN  {all[i] : i \in {j \in 1..Len(all) : all[j].similarity_score >= 30}}

\* C6: the returned list is ordered by non-increasing score and is a top-10
\* selection of the retained candidates.
C6_SortedTopTen ==
    LET retained == RetainedSet
        returned == ReturnedTickers
        n == Len(similar_ipos)
    IN  /\ \A i \in 1..n - 1 :
               similar_ipos[i].similarity_score >= similar_ipos[i + 1].similarity_score
        /\ \A i \in 1..n : similar_ipos[i] \in retained
        /\ n > 0 =>
               /\ n = Min2(10, Cardinality(retained))
               /\ \A m \in retained :
                      m.ticker \notin returned =>
                          \A i \in 1..n :
                              m.similarity_score <= similar_ipos[i].similarity_score

\* C6 witness: ten matches of differing scores are returned and a retained
\* candidate is left out.
C6_Witness ==
    /\ pc = "benchmarks"
    /\ Len(similar_ipos) = 10
    /\ similar_ipos[1].similarity_score > similar_ipos[10].similarity_score
    /\ \E m \in RetainedSet : m.ticker \notin ReturnedTickers

RowOf(ticker) ==
    historical_ipos[CHOOSE i \in 1..Len(historical_ipos) :
                        historical_ipos[i].ticker = ticker]

\* revenue growth within 10% of the current company's
GrowthWithinTenPercent(row, cur) ==
    /\ ~IsNone(row.revenue_growth_yoy)
    /\ 10 * Abs(Val(row.revenue_growth_yoy) - cur.revenue_growth_yoy)
           <= Abs(cur.revenue_growth_yoy)

\* C7: a match's score is the sum of the weights of its matching factors, and
\* a candidate matching on category, sector and industry with revenue growth
\* within 10% scores 1.00.
C7_ScoreIsSumOfFactorWeights ==
    \A i \in 1..Len(similar_ipos) :
        LET m == similar_ipos[i]
            row == RowOf(m.ticker)
        IN  /\ m.similarity_score = SumWeights(m.matching_factors)
            /\ (/\ row.market_cap_category =
                       MarketCapCategory(current_ipo.implied_market_cap)
                /\ row.sector = current_ipo.sector
                /\ row.industry = current_ipo.industry
                /\ GrowthWithinTenPercent(row, current_ipo))
               => m.similarity_score = 100

\* C8: the percentile rank is 100 * |{x in D : x < v}| / |D|, 0 at the minimum,
\* in [0, 100) up to the maximum, and 50 on empty data.
C8_PercentileRank ==
    rank_out # None =>
        LET below == Cardinality({i \in 1..Len(data) : data[i] < value})
            r == Val(rank_out)
        IN  /\ data = << >> => r = 50000
            /\ data # << >> =>
                   /\ r = (100000 * below) \div Len(data)
                   /\ (\A i \in 1..Len(data) : value <= data[i]) => r = 0
                   /\ (\E i \in 1..Len(data) : value <= data[i]) =>
                          r >= 0 /\ r < 100000

\* C8 witness: the value is the minimum of data that repeat it and exceed it.
C8_Witness ==
    /\ rank_out = Some(0)
    /\ Len(data) = 3
    /\ Cardinality({i \in 1..Len(data) : data[i] = value}) = 2
    /\ \E i \in 1..Len(data) : data[i] > value

\* C9: with trend_data_available False the trend analysis reports a
\* historical fallback from the peers or the full history.
C9_UnavailableTrendFallsBack ==
    search_analysis # Pending /\ ~current_ipo.trend_data_available =>
        /\ search_analysis.used_historical_fallback
        /\ search_analysis.fallback_source \in {"similar", "historical"}

\* C9 witness: the flag alone forces the fallback: a positive trend score,
\* no error, and the corpus unreachable.
C9_Witness ==
    /\ search_analysis # Pending
    /\ ~current_ipo.trend_data_available
    /\ current_ipo.trend_score > 0
    /\ current_ipo.trend_error = "None"
    /\ ~db_up
    /\ search_analysis.used_historical_fallback

NoTrendPeerPool ==
    PeerScores(historical_search_trends, Tickers(similar_ipos)) = << >>

NoSentimentPeerPool ==
    PeerScores(historical_news_sentiment, Tickers(similar_ipos)) = << >>

\* C10: with live data unusable and no peer pool, the analyses report
\* fallback_source "historical" with confidence 0.60 (trend) and 0.55 (sentiment).
C10_HistoricalFallbackReported ==
    /\ (/\ search_analysis # Pending
        /\ ~TrendLive(current_ipo) \/ current_ipo.trend_error # "None"
        /\ NoTrendPeerPool)
       => /\ search_analysis.fallback_source = "historical"
          /\ search_analysis.data_confidence = 60
    /\ (/\ sentiment_analysis # Pending
        /\ \/ ~(current_ipo.news_data_available /\ current_ipo.news_total_articles > 0)
           \/ current_ipo.news_error # "None"
        /\ NoSentimentPeerPool)
       => /\ sentiment_analysis.fallback_source = "historical"
          /\ sentiment_analysis.data_confidence = 55

\* the fallback state one analysis output records, for the confidence
\* `peer` it reports when it falls back to the peers
FallbackStateConsistent(a, peer) ==
    /\ (~a.used_historical_fallback) <=> (a.fallback_source = "live")
    /\ (a.data_confidence = 100) <=> (a.fallback_source = "live")
    /\ a.fallback_source = "similar" => a.data_confidence = peer
    /\ a.data_available => a.fallback_source = "live"

\* C11: every trend and sentiment analysis output records a consistent
\* fallback state: no fallback exactly when the source is "live", confidence
\* 1.0 exactly then, 0.75 / 0.70 when the source is "similar", and
\* data_available only when the source is "live".
C11_FallbackStateConsistent ==
    /\ search_analysis # Pending => FallbackStateConsistent(search_analysis, 75)
    /\ sentiment_analysis # Pending =>
           FallbackStateConsistent(sentiment_analysis, 70)

\* C11 witness: a trend analysis that fell back to the peers beside a
\* sentiment analysis that used live data.
C11_Witness ==
    /\ search_analysis # Pending
    /\ sentiment_analysis # Pending
    /\ search_analysis.fallback_source = "similar"
    /\ search_analysis.data_confidence = 75
    /\ sentiment_analysis.fallback_source = "live"
    /\ sentiment_analysis.data_available

\* the medians the trend fallback can substitute: of the peer pool, of the
\* full pool when no peer sample was read, of the neutral default [50.0]
\* when no sample was read at all
SubstituteTrendMedians ==
    LET peers == PeerScores(historical_search_trends, Tickers(similar_ipos))
        full == PoolScores(historical_search_trends)
    IN  (IF peers # << >> THEN {Median(peers)} ELSE {})
            \cup (IF full # << >> THEN {Median(full)} ELSE {})
            \cup {100}

TrendAllZero ==
    /\ current_ipo.trend_score = 0
    /\ current_ipo.trend_average_interest = 0
    /\ current_ipo.trend_recent_interest = 0

\* C12: with trend_score, trend_average_interest and trend_recent_interest all
\* zero the trend analysis reports a fallback and an effective score equal to
\* the median of the substitute pool, whatever the flag and the error say.
C12_ZeroTrendNeverScored ==
    search_analysis # Pending /\ TrendAllZero =>
        /\ search_analysis.used_historical_fallback
        /\ search_analysis.fallback_source # "live"
        /\ search_analysis.effective_trend_score \in SubstituteTrendMedians
        /\ search_analysis.effective_trend_score > 0
        /\ get_db_pool = "None" => search_analysis.effective_trend_score = 100

\* C12 witness: zeros with the flag set and no error, and a peer pool whose
\* median replaced them.
C12_Witness ==
    /\ search_analysis # Pending
    /\ TrendAllZero
    /\ current_ipo.trend_data_available
    /\ current_ipo.trend_error = "None"
    /\ PeerScores(historical_search_trends, Tickers(similar_ipos)) = << 160 >>
    /\ Len(PoolScores(historical_search_trends)) = 2
    /\ search_analysis.effective_trend_score = 160

\* C13: the trend sub-score is
\* max(35, min(100, percentile * multiplier) * (0.6 + 0.4 * confidence)) with
\* multipliers 1.2 / 1.1 / 1.0 / 0.8, lies in [35, 100], and is 100.0 for
\* percentile 95, strength Exceptional, confidence 1.0.
C13_TrendScoreFormula ==
    pc = "done" /\ search_analysis # Pending /\ score_out # None =>
        LET sa == search_analysis
            m == IF sa.trend_strength = "Exceptional" THEN 1200
                 ELSE IF sa.trend_strength = "Strong" THEN 1100
                 ELSE IF sa.trend_strength = "Moderate" THEN 1000
                 ELSE 800
            base == Min2(100000, (sa.effective_percentile * m) \div 1000)
            expected == Max2(35000, (base * (600 + 4 * sa.data_confidence)) \div 1000)
        IN  /\ Val(score_out) = expected
            /\ Val(score_out) >= 35000
            /\ Val(score_out) <= 100000
            /\ (/\ sa.effective_percentile = 95000
                /\ sa.trend_strength = "Exceptional"
                /\ sa.data_confidence = 100) => Val(score_out) = 100000

\* C13 witness: the scorer was called on percentile 95, Exceptional,
\* confidence 1.0.
C13_Witness ==
    /\ pc = "done"
    /\ search_analysis # Pending
    /\ search_analysis.effective_percentile = 95000
    /\ search_analysis.trend_strength = "Exceptional"
    /\ search_analysis.data_confidence = 100
    /\ score_out = Some(100000)

\* the strength bucket of a percentile rank
StrengthBucket(percentile) ==
    IF percentile >= 90000 THEN "Exceptional"
    ELSE IF percentile >= 75000 THEN "Strong"
    ELSE IF percentile >= 50000 THEN "Moderate"
    ELSE "Weak"

\* C14: the trend strength label is the bucket of the percentile rank of the
\* effective trend score within the peer pool, the percentile the trend
\* sub-score multiplies.
C14_StrengthFromPeerPercentile ==
    search_analysis # Pending =>
        /\ search_analysis.effective_percentile =
               search_analysis.similar_ipos_percentile
        /\ search_analysis.trend_strength =
               StrengthBucket(search_analysis.effective_percentile)

\* C15: the sentiment sub-score is
\* max(30, min(100, percentile * m) * (0.6 + 0.4 * confidence)) with m 1.2 /
\* 1.1 / 1.0 / 0.6 / 0.7 for effective sentiment > 0.2 / > 0.1 / > 0.02 /
\* < -0.05 / otherwise, and lies in [30, 100].
C15_SentimentScoreFormula ==
    pc = "done" /\ sentiment_analysis # Pending /\ score_out # None =>
        LET na == sentiment_analysis
            e == na.effective_sentiment
            m == IF e > 40 THEN 1200
                 ELSE IF e > 20 THEN 1100
                 ELSE IF e > 4 THEN 1000
                 ELSE IF e < -10 THEN 600
                 ELSE 700
            base == Min2(100000, (na.effective_percentile * m) \div 1000)
            expected == Max2(30000, (base * (600 + 4 * na.data_confidence)) \div 1000)
        IN  /\ Val(score_out) = expected
            /\ Val(score_out) >= 30000
            /\ Val(score_out) <= 100000

\* C15 witness: a negative effective sentiment at a high percentile, scored
\* above the floor with the multiplier 0.6.
C15_Witness ==
    /\ pc = "done"
    /\ sentiment_analysis # Pending
    /\ sentiment_analysis.effective_sentiment = -11
    /\ sentiment_analysis.effective_percentile = 95000
    /\ sentiment_analysis.data_confidence = 100
    /\ score_out = Some(57000)

\* the mean over the benchmarks of 0.7 * peer percentile + 0.3 * full percentile
WeightedPercentileMean(bms) ==
    SumSeq([i \in 1..Len(bms) |->
               (7 * bms[i].similar_ipos_percentile + 3 * bms[i].percentile_rank)
                   \div 10]) \div Len(bms)

FinancialScored == pc = "done" /\ score_out # None /\ search_analysis = Pending
                       /\ sentiment_analysis = Pending
                       /\ performance_predictions = Pending

\* C16 as stated: the financial sub-score is the mean over the benchmarks
\* produced of 0.7 * similar_ipos_percentile + 0.3 * percentile_rank, 50
\* without benchmarks, and always in [0, 100).
C16_FinancialScoreBelowHundred ==
    FinancialScored =>
        /\ benchmarks = << >> => Val(score_out) = 50000
        /\ benchmarks # << >> => Val(score_out) = WeightedPercentileMean(benchmarks)
        /\ Val(score_out) >= 0
        /\ Val(score_out) < 100000

\* C16 amended: the same mean, 50 without benchmarks, always in [0, 100];
\* 100 is reached when the current value exceeds every pooled value.
C16_FinancialScoreInRange ==
    FinancialScored =>
        /\ benchmarks = << >> => Val(score_out) = 50000
        /\ benchmarks # << >> => Val(score_out) = WeightedPercentileMean(benchmarks)
        /\ Val(score_out) >= 0
        /\ Val(score_out) <= 100000

\* C16 witness: two benchmarks whose current value exceeds every value of
\* both pools, scored 100.
C16_Witness ==
    /\ FinancialScored
    /\ Len(benchmarks) = 2
    /\ \A i \in 1..2 : /\ benchmarks[i].percentile_rank = 100000
                       /\ benchmarks[i].similar_ipos_percentile = 100000
                       /\ benchmarks[i].historical_median > 0
    /\ score_out = Some(100000)

PerformanceScored == pc = "done" /\ score_out # None
                         /\ performance_predictions # Pending

\* clamp(50 + predicted_first_day_return * 100, 0, 100), in thousandths
ReturnScore(pp) ==
    Max2(0, Min2(100000, 50000 + 50 * pp.predicted_first_day_return))

\* C17: the performance sub-score is
\* min(100, clamp(50 + return * 100, 0, 100) * multiplier) with the volatility
\* clamped to [0, 0.5] and the multiplier 1.1 - volatility * 1.6 between 0.7
\* and 1.1, so it lies in [0, 100], between 0.7 and 1.1 times the return
\* score (capped at 100), and does not increase with the volatility.
C17_PerformanceScoreFormula ==
    PerformanceScored =>
        LET pp == performance_predictions
            volatility == Max2(0, Min2(1000, pp.performance_volatility))
            multiplier == 1100 - (4 * volatility) \div 5
        IN  /\ Val(score_out) = Min2(100000, (ReturnScore(pp) * multiplier) \div 1000)
            /\ Val(score_out) >= 0
            /\ Val(score_out) <= 100000
            /\ Val(score_out) >= (ReturnScore(pp) * 700) \div 1000
            /\ Val(score_out) <= Min2(100000, (ReturnScore(pp) * 1100) \div 1000)
            /\ \A v \in {0, 300, 500, 800, 1000, 1200} :
                   v >= pp.performance_volatility =>
                       calculate_performance_score(
                           [pp EXCEPT !.performance_volatility = v])
                           <= Val(score_out)

ResultKeys ==
    {"hype_score", "component_scores", "weight_allocation", "analysis",
     "key_factors", "recommendation", "risk_level", "historical_context",
     "last_updated"}

\* C18: every result, the fixed fallback included, has the same structure:
\* hype_score, the five sub-scores, the weight allocation used, analysis, at
\* most 5 key_factors, recommendation, risk_level, the two counts and
\* last_updated.
C18_ResultStructure ==
    pc = "done" =>
        /\ DOMAIN result = ResultKeys
        /\ DOMAIN result.component_scores =
               {"financial_score", "trend_score", "sentiment_score",
                "performance_score", "similarity_score"}
        /\ DOMAIN result.weight_allocation =
               {"financial", "trend", "sentiment", "performance", "similarity"}
        /\ Len(result.key_factors) <= 5
        /\ DOMAIN result.historical_context =
               {"similar_ipos_count", "benchmarks_analyzed"}

\* C19: the recommendation of a result agrees with the hype_score of that
\* result: "Strong Buy" iff >= 85, "Buy" iff in [70, 85), "Hold" iff in
\* [50, 70), "Sell" iff < 50.
C19_RecommendationMatchesScore ==
    pc = "done" =>
        /\ result.recommendation = "Strong Buy" <=> result.hype_score >= 85000
        /\ result.recommendation = "Buy" <=>
               (result.hype_score >= 70000 /\ result.hype_score < 85000)
        /\ result.recommendation = "Hold" <=>
               (result.hype_score >= 50000 /\ result.hype_score < 70000)
        /\ result.recommendation = "Sell" <=> result.hype_score < 50000

Normalized == pc = "find_similar" /\ current_ipo # Pending
                  /\ search_data \in SearchDataInputs

Positive(field) == ~IsNone(field) /\ Val(field) > 0

\* the numeric fields of the feature record default to 0 when their key is
\* absent, and building the record is always possible
MissingDefaultsToZero ==
    /\ pc = "normalize" => ENABLED Normalize
    /\ Normalized =>
           /\ IsNone(search_data.trend_score) => current_ipo.trend_score = 0
           /\ IsNone(search_data.average_interest) =>
                  current_ipo.trend_average_interest = 0
           /\ IsNone(search_data.recent_interest) =>
                  current_ipo.trend_recent_interest = 0
           /\ IsNone(news_data.total_articles) => current_ipo.news_total_articles = 0
           /\ IsNone(news_data.sentiment_score) => current_ipo.sentiment_score = 0
           /\ IsNone(stock_data.market_cap) => current_ipo.implied_market_cap = 0
           /\ IsNone(stock_data.revenue_growth_yoy) =>
                  current_ipo.revenue_growth_yoy = 0

\* C20 as stated: trend_data_available is True only if no upstream trend
\* error is reported and the trend score, or both interest metrics, are
\* present and nonzero; a missing field never raises and defaults to 0.
C20_AvailableNeedsBothInterests ==
    /\ MissingDefaultsToZero
    /\ Normalized /\ current_ipo.trend_data_available =>
           /\ search_data.error = "None"
           /\ \/ Positive(search_data.trend_score)
              \/ /\ Positive(search_data.average_interest)
                 /\ Positive(search_data.recent_interest)

\* C20 amended: trend_data_available is True only if no upstream trend error
\* is reported and the trend score or at least one of the two interest
\* metrics is present and positive; a missing field never raises and
\* defaults to 0.
C20_AvailableNeedsOneSignal ==
    /\ MissingDefaultsToZero
    /\ Normalized /\ current_ipo.trend_data_available =>
           /\ search_data.error = "None"
           /\ \/ Positive(search_data.trend_score)
              \/ Positive(search_data.average_interest)
              \/ Positive(search_data.recent_interest)

\* C20 witness: only average_interest is present and positive, no error, and
\* the flag is set; the absent fields read 0.
C20_Witness ==
    /\ Normalized
    /\ IsNone(search_data.trend_score)
    /\ search_data.average_interest = Some(10)
    /\ IsNone(search_data.recent_interest)
    /\ search_data.error = "None"
    /\ current_ipo.trend_data_available
    /\ current_ipo.trend_score = 0
    /\ current_ipo.trend_recent_interest = 0

HasFactor(m, f) == \E i \in 1..Len(m.matching_factors) : m.matching_factors[i] = f

\* C21: a candidate is credited the revenue-growth factor exactly when
\* |candidate_growth - current_growth| / max(|current_growth|, 1) < 0.2,
\* for all values of the two growth rates, 0 included.
C21_GrowthFactorRule ==
    \A i \in 1..Len(similar_ipos) :
        LET m == similar_ipos[i]
            row == RowOf(m.ticker)
        IN  ~IsNone(row.revenue_growth_yoy) =>
                (HasFactor(m, "revenue_growth") <=>
                    5 * Abs(Val(row.revenue_growth_yoy) - current_ipo.revenue_growth_yoy)
                        < Max2(Abs(current_ipo.revenue_growth_yoy), 100))

\* C22: a candidate is credited the market-cap factor only when the current
\* company has a market-cap category and the candidate's stored category is
\* that category; a current company with missing or zero market cap gets the
\* factor from no candidate.
C22_MarketCapFactorNeedsCategory ==
    \A i \in 1..Len(similar_ipos) :
        LET m == similar_ipos[i]
            row == RowOf(m.ticker)
        IN  HasFactor(m, "market_cap") =>
                /\ current_ipo.implied_market_cap # 0
                /\ row.market_cap_category
                       \in {"micro", "small", "mid", "large", "mega"}
                /\ row.market_cap_category
                       = MarketCapCategory(current_ipo.implied_market_cap)

\* the non-null market_cap_at_ipo values of the rows the matches were built from
MatchedPeerMarketCaps ==
    NotNone([i \in 1..Len(similar_ipos) |-> RowOf(similar_ipos[i].ticker).market_cap_at_ipo])

\* C23: each SimilarityMatch carries its peer's market cap, so the peer-side
\* statistics of the Market Cap benchmark are computed over the matched peers'
\* market caps whenever at least one matched peer has a non-null
\* market_cap_at_ipo.
C23_MarketCapBenchmarkUsesPeers ==
    /\ \A i \in 1..Len(similar_ipos) :
           similar_ipos[i].market_cap = RowOf(similar_ipos[i].ticker).market_cap_at_ipo
    /\ (Len(benchmarks) = 3 /\ MatchedPeerMarketCaps # << >>) =>
           /\ benchmarks[3].similar_ipos_median = Median(MatchedPeerMarketCaps)
           /\ benchmarks[3].similar_ipos_mean = Mean(MatchedPeerMarketCaps)
           /\ benchmarks[3].similar_ipos_percentile =
                  calculate_percentile_rank(current_ipo.implied_market_cap,
                                            MatchedPeerMarketCaps)

\* the positions of a call between __aenter__ and __aexit__ of a read block
InBlock(t) == tasks[t].pc \in {"query", "exit"}

\* C24: a connection acquired from the pool is held for one read block only
\* and released when the block ends, whether its queries succeed or raise;
\* a call that has returned (computed or fallback) holds no connection.
C24_ConnectionsReleased ==
    \A t \in DOMAIN tasks :
        /\ ~InBlock(t) => tasks[t].conn = "None"
        /\ tasks[t].pc = "done" =>
               tasks[t].conn = "None" /\ tasks[t].outcome # "none"

\* one call has returned and another has just left a block whose query raised
C24_Witness ==
    \E t, u \in DOMAIN tasks :
        /\ tasks[t].pc = "done" /\ tasks[t].outcome = "computed"
        /\ tasks[u].pc = "after_block" /\ tasks[u].raising
        /\ tasks[u].pool # "None" /\ tasks[u].conn = "None"

\* C25: the pool of one service instance is created at most once and then
\* reused: concurrent callers of _get_db_pool that find no pool end up with
\* exactly one pool, and every connection is taken from it.
C25_PoolCreatedOnce ==
    /\ Cardinality(created_pools) <= 1
    /\ \A t \in DOMAIN tasks :
           tasks[t].conn # "None" => tasks[t].conn = db_pool

\* the rows of historical_ipos with the key of an ipo_data record
RowsWithKey(ipo_data) ==
    {i \in 1..Len(historical_ipos) :
        /\ historical_ipos[i].ticker = ipo_data.ticker
        /\ historical_ipos[i].ipo_date = ipo_data.ipo_date}

\* C26: after any sequence of successful store_ipo_data calls issued one
\* after another historical_ipos holds at most one row per (ticker, ipo_date):
\* storing a record whose key exists updates that row instead of inserting,
\* and data_completeness is the value calculate_data_completeness gives for
\* the row's fields, between 0 and 1.
C26_OneRowPerKey ==
    /\ pc = "store" =>
           \A i, j \in 1..Len(historical_ipos) :
               (/\ historical_ipos[i].ticker = historical_ipos[j].ticker
                /\ historical_ipos[i].ipo_date = historical_ipos[j].ipo_date)
                   => i = j
    /\ (pc = "store" /\ ~IsNone(stored) /\ Val(stored).ok) =>
           /\ Cardinality(RowsWithKey(Val(stored).ipo_data)) = 1
           /\ \A i \in RowsWithKey(Val(stored).ipo_data) :
                  historical_ipos[i] = Val(stored).ipo_data
    /\ pc = "store" =>
           \A i \in 1..Len(historical_ipos) :
               /\ historical_ipos[i].data_completeness
                      = Min2(40, 10 * RequiredCount(historical_ipos[i])
                                 + 2 * OptionalCount(historical_ipos[i]))
               /\ historical_ipos[i].data_completeness \in 0..40

\* a record stored over an existing row: the table keeps its two rows and
\* the first one now holds the new, less complete record
C26_Witness ==
    /\ pc = "store" /\ ~IsNone(stored) /\ Val(stored).ok
    /\ Len(historical_ipos) = 2
    /\ historical_ipos[1] = Val(stored).ipo_data
    /\ historical_ipos[1].data_completeness < 40
    /\ historical_ipos[2].data_completeness = 40

\* generate_hype_score has returned a result
LlmReturned == ~IsNone(llm_result) /\ Val(llm_result).outcome.raised = "none"

\* C27: in the result of generate_hype_score the LLM step changes only the
\* numeric hype_score: component_scores, historical_context, recommendation,
\* risk_level, key_factors and analysis are those of the core's result.
C27_OnlyScoreChanges ==
    LlmReturned =>
        LET out == Val(llm_result).outcome.value
        IN  /\ out.component_scores = result.component_scores
            /\ out.historical_context = result.historical_context
            /\ out.recommendation = result.recommendation
            /\ out.risk_level = result.risk_level
            /\ out.key_factors = result.key_factors
            /\ out.analysis = result.analysis

\* no key is configured, or the score call was made and failed
LlmStepMissing ==
    /\ ~IsNone(llm_result)
    /\ \/ ~api_key
       \/ /\ Val(llm_result).outcome.raised = "none"
          /\ Val(llm_result).score_reply.kind = "raise"

PooledReturns(horizon) ==
    LET rows == SelectSeq(historical_ipos,
                    LAMBDA row : /\ row.ipo_age <= FiveYears
                                 /\ ~IsNone(row.first_day_return))
    IN  NotNone([i \in 1..Len(rows) |-> rows[i][horizon]])
        \o NotNone([i \in 1..Len(similar_ipos) |-> similar_ipos[i][horizon]])

AllReturnsPooled ==
    /\ PooledReturns("first_day_return") # << >>
    /\ PooledReturns("first_week_return") # << >>
    /\ PooledReturns("first_month_return") # << >>

\* C29: analyze_ipo_hype_score returns a computed result only if the pooled
\* first-day, first-week and first-month return lists are all non-empty; if
\* any of them is empty the analysis is discarded and the fixed fallback
\* result is returned.
C29_ComputedNeedsAllReturns ==
    pc = "done" =>
        /\ raised = "none" => AllReturnsPooled
        /\ ~AllReturnsPooled =>
               /\ raised # "none"
               /\ result.hype_score = 50000
               /\ result.recommendation = "Hold"
               /\ result.risk_level = "High"
               /\ result.historical_context =
                      [similar_ipos_count |-> 0, benchmarks_analyzed |-> 0]

\* first-day returns exist, no first-week return does, and the call has
\* returned the fallback although a peer was matched
C29_Witness ==
    /\ pc = "done"
    /\ PooledReturns("first_day_return") # << >>
    /\ PooledReturns("first_week_return") = << >>
    /\ similar_ipos # << >>
    /\ raised = "performance"
    /\ result.hype_score = 50000

BenchmarkNames == << "Revenue Growth YoY", "Gross Margin", "Market Cap" >>

\* C30: _calculate_historical_benchmarks returns a prefix of the sequence
\* [Revenue Growth YoY, Gross Margin, Market Cap]: a corpus read that fails
\* after k benchmarks keeps those k and does not raise, and the later steps
\* run with them (benchmarks_analyzed = k, k in 0..3).
C30_BenchmarksArePrefix ==
    /\ Len(benchmarks) \in 0..3
    /\ \A i \in 1..Len(benchmarks) :
           benchmarks[i].metric_name = BenchmarkNames[i]
    /\ raised # "benchmarks"
    /\ (pc = "done" /\ raised = "none") =>
           result.historical_context.benchmarks_analyzed = Len(benchmarks)

\* the second query failed: one benchmark was kept and a computed result
\* reports benchmarks_analyzed = 1
C30_Witness ==
    /\ pc = "done" /\ raised = "none"
    /\ Len(benchmarks) = 1
    /\ benchmarks[1].metric_name = "Revenue Growth YoY"
    /\ result.historical_context.benchmarks_analyzed = 1

=============================================================================
